---- MODULE Spec2Model ----
(***************************************************************************)
(* A state-machine model of the Intel 8080 emulator core: the CPU struct   *)
(* of src/src/lib.rs (registers, flags, pc, sp, halt, int, inte, the I/O   *)
(* callbacks) and the AddressBus of src/src/memory.rs (address space, ROM  *)
(* window, port latches, OUT mailbox).  One action per host-visible        *)
(* operation; CPU::execute is translated arm by arm.                       *)
(*                                                                         *)
(* Integer width.  Every u8 is kept in 0..255 and every u16 in 0..65535.   *)
(* The source mixes wrapping_add/wrapping_sub with the plain operators     *)
(* `+` and `+=`.  A plain `+` that leaves the u16 range wraps in a build   *)
(* without overflow checks (cargo --release) and panics in a build with    *)
(* them (cargo build, cargo test).  The variable overflow_checks records   *)
(* which build runs; each plain `+` of the source contributes a trap       *)
(* condition, and a call that traps under overflow_checks ends in          *)
(* panicked instead of returning.                                          *)
(***************************************************************************)
EXTENDS Integers, Sequences, FiniteSets, TLC

VARIABLES
    cpu,              \* the CPU struct, with its bus
    overflow_checks,  \* TRUE: the build panics on arithmetic overflow
    panicked,         \* TRUE once a call has panicked (the thread unwinds)
    rom_image,        \* ghost: the address space as it was when the ROM window was set
    last,             \* ghost: the last operation, its inputs and the state before it
    steps,            \* ghost: number of operations performed so far
    arms              \* ghost: number of interrupt requests the host has armed

vars == <<cpu, overflow_checks, panicked, rom_image, last, steps, arms>>

(***************************************************************************)
(* Fixed-width arithmetic                                                  *)
(***************************************************************************)
Byte == 0..255

wrapping_add16(x, n) == (x + n) % 65536

wrapping_sub16(x, n) == (x + 65536 - n) % 65536

wrapping_add8(x, n) == (x + n) % 256

wrapping_sub8(x, n) == (x + 256 - n) % 256

\* `x + n` on u16 leaves the range: a panic under overflow checks
overflows16(x, n) == x + n > 65535

RECURSIVE BitOp(_, _, _, _)
\* bitwise combination of the low `k` bits of x and y; op is "and", "or" or "xor"
BitOp(op, x, y, k) ==
    IF k = 0 THEN 0
    ELSE LET bx == x % 2
             by == y % 2
             b  == CASE op = "and" -> IF bx = 1 /\ by = 1 THEN 1 ELSE 0
                    [] op = "or"  -> IF bx = 1 \/ by = 1 THEN 1 ELSE 0
                    [] OTHER      -> IF bx # by THEN 1 ELSE 0
         IN  b + 2 * BitOp(op, x \div 2, y \div 2, k - 1)

And8(x, y) == BitOp("and", x, y, 8)

Or8(x, y) == BitOp("or", x, y, 8)

Xor8(x, y) == BitOp("xor", x, y, 8)

RECURSIVE count_ones(_)
count_ones(x) == IF x = 0 THEN 0 ELSE (x % 2) + count_ones(x \div 2)

\* bit::get(n, b): bit b of the byte n
bit_get(n, b) == (n \div (2 ^ b)) % 2 = 1

(***************************************************************************)
(* AddressBus (memory.rs).  address_space is the 65,536-byte vector, kept  *)
(* as the function from the addresses holding a non-zero byte to that      *)
(* byte; every other address holds 0, as after vec![0; 65536].             *)
(* rom_space is Option<ROMSpace>: <<>> for None, <<[start, end]>> for Some. *)
(***************************************************************************)
NoRom == <<>>

SomeRom(start, end) == <<[start |-> start, end |-> end]>>

AddressBus_new ==
    [ address_space |-> <<>>,
      rom_space     |-> NoRom,
      io_in         |-> <<>>,
      pending_io    |-> [kind |-> "CLR", device |-> 0, value |-> 0] ]

\* address_space[address] = data
store(mem, address, data) ==
    IF data = 0
    THEN [a \in (DOMAIN mem) \ {address} |-> mem[a]]
    ELSE [a \in (DOMAIN mem) \cup {address} |-> IF a = address THEN data ELSE mem[a]]

\* address_space[address]
load(mem, address) == IF address \in DOMAIN mem THEN mem[address] ELSE 0

read_byte(bus, address) == load(bus.address_space, address)

\* the guard shared by write_byte and write_word
in_rom_space(bus, address) ==
    /\ bus.rom_space # NoRom
    /\ address >= bus.rom_space[1].start
    /\ address <= bus.rom_space[1].end

write_byte(bus, address, data) ==
    IF in_rom_space(bus, address) THEN bus
    ELSE [bus EXCEPT !.address_space = store(@, address, data)]

\* `address + 1` is a plain u16 addition in read_word, read_le_word and write_word
read_word_traps(address) == overflows16(address, 1)

read_word(bus, address) ==
    read_byte(bus, address) + 256 * read_byte(bus, wrapping_add16(address, 1))

read_le_word(bus, address) ==
    256 * read_byte(bus, address) + read_byte(bus, wrapping_add16(address, 1))

write_word_traps(bus, address) ==
    ~in_rom_space(bus, address) /\ overflows16(address, 1)

write_word(bus, address, data) ==
    IF in_rom_space(bus, address) THEN bus
    ELSE [bus EXCEPT !.address_space =
              store(store(@, address, data % 256),
                    wrapping_add16(address, 1), data \div 256)]

\* io_in is the 256-entry latch vector, kept like address_space
get_io_in(bus, device) == load(bus.io_in, device)

set_io_in(bus, device, value) == [bus EXCEPT !.io_in = store(@, device, value)]

\* a mailbox that keeps an OUT nobody has cleared
set_io_out_keeps_unread(bus, device, value) ==
    IF bus.pending_io.kind = "OUT" THEN bus
    ELSE [bus EXCEPT !.pending_io = [kind |-> "OUT", device |-> device, value |-> value]]

set_io_out(bus, device, value) ==
    [bus EXCEPT !.pending_io = [kind |-> "OUT", device |-> device, value |-> value]]

\* a mailbox read that does not look at the device
get_io_out_any_device(bus, device) ==
    IF bus.pending_io.kind = "OUT" THEN <<bus.pending_io.value>> ELSE <<>>

\* Option<u8>: <<>> for None, <<v>> for Some(v)
get_io_out(bus, device) ==
    IF bus.pending_io.kind = "OUT" /\ bus.pending_io.device = device
    THEN <<bus.pending_io.value>> ELSE <<>>

clear_io_out(bus) ==
    [bus EXCEPT !.pending_io = [kind |-> "CLR", device |-> 0, value |-> 0]]

\* a file on disk: <<>> when File::open fails, <<buf>> with its bytes otherwise
NoFile == <<>>

SomeFile(buf) == <<buf>>

\* address_space[org .. buf.len() + org]: the slice is out of range, and the
\* call panics in every build, when it ends past the 65536 cells of the vector
load_bin_panics(file, org) == file # NoFile /\ Len(file[1]) + org > 65536

\* clone_from_slice: the cells org, org + 1, ... take the bytes of buf, with no
\* look at rom_space
RECURSIVE clone_from_slice(_, _, _)
clone_from_slice(mem, org, buf) ==
    IF buf = <<>> THEN mem
    ELSE clone_from_slice(store(mem, org, Head(buf)), org + 1, Tail(buf))

\* load_bin copying through write_byte, which keeps out of the ROM window
RECURSIVE load_bin_through_write_byte(_, _, _)
load_bin_through_write_byte(bus, file, org) ==
    IF file = NoFile THEN [bus |-> bus, result |-> <<"Err", "io">>]
    ELSE IF file[1] = <<>> THEN [bus |-> bus, result |-> <<"Ok">>]
    ELSE load_bin_through_write_byte(write_byte(bus, org, Head(file[1])),
                                     SomeFile(Tail(file[1])), org + 1)

\* AddressBus::load_bin when it returns: the bus after the call and the Result
load_bin(bus, file, org) ==
    IF file = NoFile THEN [bus |-> bus, result |-> <<"Err", "io">>]
    ELSE [bus    |-> [bus EXCEPT !.address_space = clone_from_slice(@, org, file[1])],
          result |-> <<"Ok">>]

(***************************************************************************)
(* Flags (flags.rs)                                                        *)
(***************************************************************************)
Flags_new == [s |-> FALSE, z |-> FALSE, a |-> FALSE, p |-> FALSE, c |-> FALSE]

b2n(b) == IF b THEN 1 ELSE 0

\* the packing without the constant bit 1
as_byte_without_bit1(f) ==
    128 * b2n(f.s) + 64 * b2n(f.z) + 16 * b2n(f.a) + 4 * b2n(f.p) + b2n(f.c)

as_byte(f) ==
    128 * b2n(f.s) + 64 * b2n(f.z) + 16 * b2n(f.a) + 4 * b2n(f.p) + b2n(f.c) + 2

from_byte(bflags) ==
    [ s |-> bit_get(bflags, 7),
      z |-> bit_get(bflags, 6),
      a |-> bit_get(bflags, 4),
      p |-> bit_get(bflags, 2),
      c |-> bit_get(bflags, 0) ]

(***************************************************************************)
(* Registers (crate::register).  The paired views follow the data model:   *)
(* BC = (B<<8)|C, DE = (D<<8)|E, HL = (H<<8)|L; a paired write stores the  *)
(* high byte in the first-named register.                                  *)
(***************************************************************************)
Registers_new == [a |-> 0, b |-> 0, c |-> 0, d |-> 0, e |-> 0, h |-> 0, l |-> 0]

get_bc(r) == 256 * r.b + r.c

get_de(r) == 256 * r.d + r.e

get_hl(r) == 256 * r.h + r.l

set_bc(r, v) == [r EXCEPT !.b = v \div 256, !.c = v % 256]

set_de(r, v) == [r EXCEPT !.d = v \div 256, !.e = v % 256]

set_hl(r, v) == [r EXCEPT !.h = v \div 256, !.l = v % 256]

(***************************************************************************)
(* CPU (lib.rs).  Option<Callback> is "none" when no callback is set; a    *)
(* registered callback is a host function, modelled by its return value:   *)
(* <<"some", v>> returns Some(v), <<"nil">> returns None.                  *)
(***************************************************************************)
\* Debug::new; the string is kept as the tuple of the values formatted into it
Debug_new == [switch |-> FALSE, string |-> <<>>]

CPU_new ==
    [ registers    |-> Registers_new,
      flags        |-> Flags_new,
      pc           |-> 0,
      sp           |-> 0,
      bus          |-> AddressBus_new,
      halt         |-> FALSE,
      int          |-> <<FALSE, 0>>,
      inte         |-> FALSE,
      out_callback |-> <<"none">>,
      in_callback  |-> <<"none">>,
      debug        |-> Debug_new,
      slice_duration       |-> 16,
      slice_max_cycles     |-> 35000,
      slice_current_cycles |-> 0 ]

set_cb_out(c, cb) == [c EXCEPT !.out_callback = cb]

set_cb_in(c, cb) == [c EXCEPT !.in_callback = cb]

\* z, s, p with the parity flag set on an odd number of 1 bits
zsp_odd_parity(f, r) ==
    [f EXCEPT !.z = (r = 0), !.s = bit_get(r, 7), !.p = (count_ones(r) % 2 = 1)]

\* the z, s, p assignments shared by the arithmetic helpers
zsp(f, r) == [f EXCEPT !.z = (r = 0), !.s = bit_get(r, 7), !.p = (count_ones(r) % 2 = 0)]

inr_flags(f, n) ==
    [zsp(f, wrapping_add8(n, 1)) EXCEPT !.a = ((n % 16) + 1 > 15)]

inr(n) == wrapping_add8(n, 1)

\* DCR flags whose auxiliary carry looks at the operand before the decrement
dcr_flags_aux_of_operand(f, n) ==
    [zsp(f, wrapping_sub8(n, 1)) EXCEPT !.a = ((n % 16) # 15)]

\* DCR flags whose z, s, p look at the operand before the decrement
dcr_flags_zsp_of_operand(f, n) ==
    [zsp(f, n) EXCEPT !.a = ((wrapping_sub8(n, 1) % 16) # 15)]

dcr_flags(f, n) ==
    [zsp(f, wrapping_sub8(n, 1)) EXCEPT !.a = ((wrapping_sub8(n, 1) % 16) # 15)]

dcr(n) == wrapping_sub8(n, 1)

\* ADD that leaves the auxiliary carry clear
add_aux_cleared(c, n) ==
    LET a == c.registers.a
        r == wrapping_add8(a, n)
    IN  [c EXCEPT !.flags = [zsp(@, r) EXCEPT !.a = FALSE,
                                              !.c = (a + n > 255)],
                  !.registers.a = r]

add(c, n) ==
    LET a == c.registers.a
        r == wrapping_add8(a, n)
    IN  [c EXCEPT !.flags = [zsp(@, r) EXCEPT !.a = ((a % 16) + (n % 16) > 15),
                                              !.c = (a + n > 255)],
                  !.registers.a = r]

\* ADC whose auxiliary carry leaves the incoming carry out
adc_aux_without_carry_in(c, n) ==
    LET cy == b2n(c.flags.c)
        a  == c.registers.a
        r  == wrapping_add8(wrapping_add8(a, n), cy)
    IN  [c EXCEPT !.flags = [zsp(@, r) EXCEPT !.a = ((a % 16) + (n % 16) > 15),
                                              !.c = (a + n + cy > 255)],
                  !.registers.a = r]

adc(c, n) ==
    LET cy == b2n(c.flags.c)
        a  == c.registers.a
        r  == wrapping_add8(wrapping_add8(a, n), cy)
    IN  [c EXCEPT !.flags = [zsp(@, r) EXCEPT !.a = ((a % 16) + (n % 16) + cy > 15),
                                              !.c = (a + n + cy > 255)],
                  !.registers.a = r]

sub(c, n) ==
    LET a == c.registers.a
        r == wrapping_sub8(a, n)
    IN  [c EXCEPT !.flags = [zsp(@, r) EXCEPT !.a = ((a % 16) - (n % 16) >= 0),
                                              !.c = (a < n)],
                  !.registers.a = r]

\* SBB whose borrow compares A with the wrapped sum n + carry
sbb_borrow_after_wrap(c, n) ==
    LET cy == b2n(c.flags.c)
        a  == c.registers.a
        r  == wrapping_sub8(a, wrapping_add8(n, cy))
    IN  [c EXCEPT !.flags = [zsp(@, r) EXCEPT !.a = ((a % 16) - (n % 16) - cy >= 0),
                                              !.c = (a < wrapping_add8(n, cy))],
                  !.registers.a = r]

sbb(c, n) ==
    LET cy == b2n(c.flags.c)
        a  == c.registers.a
        r  == wrapping_sub8(a, wrapping_add8(n, cy))
    IN  [c EXCEPT !.flags = [zsp(@, r) EXCEPT !.a = ((a % 16) - (n % 16) - cy >= 0),
                                              !.c = (a < n + cy)],
                  !.registers.a = r]

\* ANA that clears the auxiliary carry as XRA and ORA do
ana_aux_cleared(c, n) ==
    LET r == And8(c.registers.a, n)
    IN  [c EXCEPT !.flags = [zsp(@, r) EXCEPT !.a = FALSE, !.c = FALSE],
                  !.registers.a = r]

ana(c, n) ==
    LET r == And8(c.registers.a, n)
    IN  [c EXCEPT !.flags = [zsp(@, r) EXCEPT !.a = (And8(Or8(n, c.registers.a), 8) # 0),
                                              !.c = FALSE],
                  !.registers.a = r]

xra(c, n) ==
    LET r == Xor8(c.registers.a, n)
    IN  [c EXCEPT !.flags = [zsp(@, r) EXCEPT !.c = FALSE, !.a = FALSE],
                  !.registers.a = r]

ora(c, n) ==
    LET r == Or8(c.registers.a, n)
    IN  [c EXCEPT !.flags = [zsp(@, r) EXCEPT !.c = FALSE, !.a = FALSE],
                  !.registers.a = r]

\* CMP that keeps the difference in A
cmp_without_restore(c, n) == sub(c, n)

cmp(c, n) == [sub(c, n) EXCEPT !.registers.a = c.registers.a]

rlc(c) ==
    LET cy == bit_get(c.registers.a, 7)
    IN  [c EXCEPT !.flags.c = cy,
                  !.registers.a = Or8((c.registers.a * 2) % 256, b2n(cy))]

rrc(c) ==
    LET cy == bit_get(c.registers.a, 0)
    IN  [c EXCEPT !.flags.c = cy,
                  !.registers.a = IF cy THEN Or8(128, c.registers.a \div 2)
                                  ELSE c.registers.a \div 2]

\* RAL that shifts a 0 into bit 0 whatever the carry is
ral_without_carry_in(c) ==
    [c EXCEPT !.flags.c = bit_get(c.registers.a, 7),
              !.registers.a = (c.registers.a * 2) % 256]

ral(c) ==
    [c EXCEPT !.flags.c = bit_get(c.registers.a, 7),
              !.registers.a = IF c.flags.c THEN Or8((c.registers.a * 2) % 256, 1)
                              ELSE (c.registers.a * 2) % 256]

rar(c) ==
    [c EXCEPT !.flags.c = bit_get(c.registers.a, 0),
              !.registers.a = IF c.flags.c THEN Or8(c.registers.a \div 2, 128)
                              ELSE c.registers.a \div 2]

\* DAD whose carry is already set by a sum of 0xFFFF
dad_carry_at_ffff(c, n) ==
    LET h == get_hl(c.registers)
    IN  [c EXCEPT !.registers = set_hl(@, wrapping_add16(h, n)),
                  !.flags.c = (h + n >= 65535)]

dad(c, n) ==
    LET h == get_hl(c.registers)
    IN  [c EXCEPT !.registers = set_hl(@, wrapping_add16(h, n)),
                  !.flags.c = (h + n > 65535)]

\* XCHG that also resets the flags
xchg_resetting_flags(c) ==
    [c EXCEPT !.registers.d = c.registers.h, !.registers.e = c.registers.l,
              !.registers.h = c.registers.d, !.registers.l = c.registers.e,
              !.flags = Flags_new]

xchg(c) ==
    [c EXCEPT !.registers.d = c.registers.h, !.registers.e = c.registers.l,
              !.registers.h = c.registers.d, !.registers.l = c.registers.e]

\* read_word(sp) and write_word(sp, hl) both add 1 to sp
xthl_traps(c) == read_word_traps(c.sp) \/ write_word_traps(c.bus, c.sp)

xthl(c) ==
    LET pointed_by_sp == read_word(c.bus, c.sp)
        hl            == get_hl(c.registers)
    IN  [c EXCEPT !.bus = write_word(@, c.sp, hl),
                  !.registers = set_hl(@, pointed_by_sp)]

\* DAA without the test (msb >= 9 && lsb > 9)
daa_without_nine_test(c) ==
    LET lsb   == c.registers.a % 16
        msb   == c.registers.a \div 16
        low   == (lsb > 9) \/ c.flags.a
        high  == (msb > 9) \/ c.flags.c
        inc_a == (IF low THEN 6 ELSE 0) + (IF high THEN 96 ELSE 0)
        cy    == IF high THEN TRUE ELSE c.flags.c
        added == add(c, inc_a)
    IN  [added EXCEPT !.flags = [zsp(@, added.registers.a) EXCEPT !.c = cy]]

daa(c) ==
    LET lsb   == c.registers.a % 16
        msb   == c.registers.a \div 16
        low   == (lsb > 9) \/ c.flags.a
        high  == (msb > 9) \/ c.flags.c \/ (msb >= 9 /\ lsb > 9)
        inc_a == (IF low THEN 6 ELSE 0) + (IF high THEN 96 ELSE 0)
        cy    == IF high THEN TRUE ELSE c.flags.c
        added == add(c, inc_a)
    IN  [added EXCEPT !.flags = [zsp(@, added.registers.a) EXCEPT !.c = cy]]

subroutine_stack_push_traps(c) == write_word_traps(c.bus, wrapping_sub16(c.sp, 2))

\* subroutine stack push that gives up altogether, SP included, on a read-only
\* stack
subroutine_stack_push_all_or_nothing(c) ==
    LET sp == wrapping_sub16(c.sp, 2)
    IN  IF in_rom_space(c.bus, sp) THEN c
        ELSE [c EXCEPT !.sp = sp, !.bus = write_word(@, sp, wrapping_add16(c.pc, 3))]

subroutine_stack_push(c) ==
    LET sp == wrapping_sub16(c.sp, 2)
    IN  [c EXCEPT !.sp = sp, !.bus = write_word(@, sp, wrapping_add16(c.pc, 3))]

subroutine_stack_pop_traps(c) == read_word_traps(c.sp)

subroutine_stack_pop(c) ==
    [c EXCEPT !.pc = read_word(c.bus, c.sp), !.sp = wrapping_add16(c.sp, 2)]

interrupt_stack_push_traps(c) == write_word_traps(c.bus, wrapping_sub16(c.sp, 2))

interrupt_stack_push(c) ==
    LET sp == wrapping_sub16(c.sp, 2)
    IN  [c EXCEPT !.sp = sp, !.bus = write_word(@, sp, c.pc)]

(***************************************************************************)
(* CPU::execute, the decode.  An arm yields the CPU after the arm, the     *)
(* cycles it adds to the table entry, whether one of its plain u16         *)
(* additions overflowed, and the arguments of the callback it invoked      *)
(* (<<>> when it invoked none).                                            *)
(***************************************************************************)
Arm(c, extra, trap) == [c |-> c, extra |-> extra, trap |-> trap, call |-> <<>>]

\* self.bus.read_byte(self.pc + 1)
imm8(c) == read_byte(c.bus, wrapping_add16(c.pc, 1))

imm8_traps(c) == overflows16(c.pc, 1)

\* self.bus.read_word(self.pc + 1)
imm16(c) == read_word(c.bus, wrapping_add16(c.pc, 1))

imm16_traps(c) == overflows16(c.pc, 1) \/ read_word_traps(wrapping_add16(c.pc, 1))

\* operand i of the register/memory forms: B, C, D, E, H, L, (HL), A
reg8(c, i) ==
    CASE i = 0 -> c.registers.b
      [] i = 1 -> c.registers.c
      [] i = 2 -> c.registers.d
      [] i = 3 -> c.registers.e
      [] i = 4 -> c.registers.h
      [] i = 5 -> c.registers.l
      [] i = 6 -> read_byte(c.bus, get_hl(c.registers))
      [] OTHER -> c.registers.a

set_reg8(c, i, v) ==
    CASE i = 0 -> [c EXCEPT !.registers.b = v]
      [] i = 1 -> [c EXCEPT !.registers.c = v]
      [] i = 2 -> [c EXCEPT !.registers.d = v]
      [] i = 3 -> [c EXCEPT !.registers.e = v]
      [] i = 4 -> [c EXCEPT !.registers.h = v]
      [] i = 5 -> [c EXCEPT !.registers.l = v]
      [] i = 6 -> [c EXCEPT !.bus = write_byte(@, get_hl(c.registers), v)]
      [] OTHER -> [c EXCEPT !.registers.a = v]

\* a flag test that looks at the sense bit of the opcode only
condition_ignores_flags(c, opcode) == ((opcode \div 8) % 2 = 1)

\* the flag test of a conditional jump, call or return: NZ, Z, NC, C, PO, PE, P, M
condition(c, opcode) ==
    LET k == (opcode \div 8) % 8
    IN  CASE k = 0 -> ~c.flags.z
          [] k = 1 -> c.flags.z
          [] k = 2 -> ~c.flags.c
          [] k = 3 -> c.flags.c
          [] k = 4 -> ~c.flags.p
          [] k = 5 -> c.flags.p
          [] k = 6 -> ~c.flags.s
          [] OTHER -> c.flags.s

ConditionalJumps == {194, 202, 210, 218, 226, 234, 242, 250}

ConditionalCalls == {196, 204, 212, 220, 228, 236, 244, 252}

ConditionalReturns == {192, 200, 208, 216, 224, 232, 240, 248}

Restarts == {199, 207, 215, 223, 231, 239, 247, 255}

MviOpcodes == {6, 14, 22, 30, 38, 46, 54, 62}

InrOpcodes == {4, 12, 20, 28, 36, 44, 52, 60}

DcrOpcodes == {5, 13, 21, 29, 37, 45, 53, 61}

\* the +6 of a taken conditional call; the CC arm (0xDC) has none
call_penalty(opcode) == IF opcode = 220 THEN 0 ELSE 6

\* a taken conditional return that costs no more than one not taken
return_penalty_none(opcode) == 0

\* the +6 of a taken conditional return
return_penalty(opcode) == 6

\* RST that pushes pc0 on the direct path too
rst_without_increment(c, opcode, direct_rst) ==
    Arm([interrupt_stack_push(c) EXCEPT !.pc = 8 * ((opcode \div 8) % 8)],
        0, interrupt_stack_push_traps(c))

\* RST n: the address pushed, then pc = 8 * n
rst(c, opcode, direct_rst) ==
    LET at == IF direct_rst THEN [c EXCEPT !.pc = wrapping_add16(c.pc, 1)] ELSE c
        trap == (direct_rst /\ overflows16(c.pc, 1)) \/ interrupt_stack_push_traps(at)
    IN  Arm([interrupt_stack_push(at) EXCEPT !.pc = 8 * ((opcode \div 8) % 8)], 0, trap)

\* the register/memory-to-accumulator block 0x80..0xBF
alu(c, k, n) ==
    CASE k = 0 -> add(c, n)
      [] k = 1 -> adc(c, n)
      [] k = 2 -> sub(c, n)
      [] k = 3 -> sbb(c, n)
      [] k = 4 -> ana(c, n)
      [] k = 5 -> xra(c, n)
      [] k = 6 -> ora(c, n)
      [] OTHER -> cmp(c, n)

\* cb(self, device, 0): the arguments the in-callback is invoked with
in_callback_call(c) ==
    IF c.in_callback[1] = "none" THEN <<>> ELSE <<"in", imm8(c), 0>>

\* cb(self, device, self.registers.a): the arguments the out-callback is invoked with
out_callback_call(c) ==
    IF c.out_callback[1] = "none" THEN <<>> ELSE <<"out", imm8(c), c.registers.a>>

\* IN that reads the latch whether or not a callback is set
io_in_arm_latch_always(c) == [c EXCEPT !.registers.a = get_io_in(c.bus, imm8(c))]

\* IN: the callback if one is set, the latch otherwise
io_in_arm(c) ==
    LET device == imm8(c)
    IN  CASE c.in_callback[1] = "none" -> [c EXCEPT !.registers.a = get_io_in(c.bus, device)]
          [] c.in_callback[1] = "some" -> [c EXCEPT !.registers.a = c.in_callback[2]]
          [] OTHER -> c

\* OUT: the callback if one is set (its return value is dropped), the mailbox otherwise
io_out_arm(c) ==
    LET device == imm8(c)
    IN  IF c.out_callback[1] = "none"
        THEN [c EXCEPT !.bus = set_io_out(@, device, c.registers.a)]
        ELSE c

decode(c, opcode, direct_rst) ==
    CASE opcode = 63 -> Arm([c EXCEPT !.flags.c = ~c.flags.c], 0, FALSE)             \* CMC
      [] opcode = 55 -> Arm([c EXCEPT !.flags.c = TRUE], 0, FALSE)                   \* STC
      [] opcode \in InrOpcodes ->                                                    \* INR
            LET i == (opcode \div 8) % 8
                n == reg8(c, i)
            IN  Arm(set_reg8([c EXCEPT !.flags = inr_flags(@, n)], i, inr(n)), 0, FALSE)
      [] opcode \in DcrOpcodes ->                                                    \* DCR
            LET i == (opcode \div 8) % 8
                n == reg8(c, i)
            IN  Arm(set_reg8([c EXCEPT !.flags = dcr_flags(@, n)], i, dcr(n)), 0, FALSE)
      [] opcode = 47 -> Arm([c EXCEPT !.registers.a = 255 - @], 0, FALSE)            \* CMA
      [] opcode = 39 -> Arm(daa(c), 0, FALSE)                                        \* DAA
      [] opcode = 0 -> Arm(c, 0, FALSE)                                              \* NOP
      [] opcode = 118 -> Arm([c EXCEPT !.halt = TRUE], 0, FALSE)                     \* HLT
      [] opcode \in 64..127 /\ opcode # 118 ->                                       \* MOV
            Arm(set_reg8(c, (opcode \div 8) % 8, reg8(c, opcode % 8)), 0, FALSE)
      [] opcode = 2 ->                                                               \* STAX B
            Arm([c EXCEPT !.bus = write_byte(@, get_bc(c.registers), c.registers.a)], 0, FALSE)
      [] opcode = 18 ->                                                              \* STAX D
            Arm([c EXCEPT !.bus = write_byte(@, get_de(c.registers), c.registers.a)], 0, FALSE)
      [] opcode = 10 ->                                                              \* LDAX B
            Arm([c EXCEPT !.registers.a = read_byte(c.bus, get_bc(c.registers))], 0, FALSE)
      [] opcode = 26 ->                                                              \* LDAX D
            Arm([c EXCEPT !.registers.a = read_byte(c.bus, get_de(c.registers))], 0, FALSE)
      [] opcode \in 128..191 ->                                        \* ADD .. CMP
            Arm(alu(c, (opcode \div 8) % 8, reg8(c, opcode % 8)), 0, FALSE)
      [] opcode = 7 -> Arm(rlc(c), 0, FALSE)                                         \* RLC
      [] opcode = 15 -> Arm(rrc(c), 0, FALSE)                                        \* RRC
      [] opcode = 23 -> Arm(ral(c), 0, FALSE)                                        \* RAL
      [] opcode = 31 -> Arm(rar(c), 0, FALSE)                                        \* RAR
      [] opcode \in {197, 213, 229} ->                                 \* PUSH B, D, H
            LET sp == wrapping_sub16(c.sp, 2)
                rp == CASE opcode = 197 -> get_bc(c.registers)
                        [] opcode = 213 -> get_de(c.registers)
                        [] OTHER -> get_hl(c.registers)
            IN  Arm([c EXCEPT !.sp = sp, !.bus = write_word(@, sp, rp)],
                    0, write_word_traps(c.bus, sp))
      [] opcode = 245 ->                                                             \* PUSH PSW
            LET sp == wrapping_sub16(c.sp, 2)
            IN  Arm([c EXCEPT !.sp = sp,
                              !.bus = write_byte(write_byte(@, sp, as_byte(c.flags)),
                                                 wrapping_add16(sp, 1), c.registers.a)],
                    0, overflows16(sp, 1))
      [] opcode \in {193, 209, 225} ->                                 \* POP B, D, H
            LET w == read_word(c.bus, c.sp)
            IN  Arm([c EXCEPT !.registers = CASE opcode = 193 -> set_bc(@, w)
                                              [] opcode = 209 -> set_de(@, w)
                                              [] OTHER -> set_hl(@, w),
                              !.sp = wrapping_add16(c.sp, 2)],
                    0, read_word_traps(c.sp))
      [] opcode = 241 ->                                                             \* POP PSW
            Arm([c EXCEPT !.registers.a = read_byte(c.bus, wrapping_add16(c.sp, 1)),
                          !.flags = from_byte(read_byte(c.bus, c.sp)),
                          !.sp = wrapping_add16(c.sp, 2)],
                0, overflows16(c.sp, 1))
      [] opcode = 9 -> Arm(dad(c, get_bc(c.registers)), 0, FALSE)                    \* DAD B
      [] opcode = 25 -> Arm(dad(c, get_de(c.registers)), 0, FALSE)                   \* DAD D
      [] opcode = 41 -> Arm(dad(c, get_hl(c.registers)), 0, FALSE)                   \* DAD H
      [] opcode = 57 -> Arm(dad(c, c.sp), 0, FALSE)                                  \* DAD SP
      [] opcode = 3 ->                                                               \* INX B
            Arm([c EXCEPT !.registers = set_bc(@, wrapping_add16(get_bc(@), 1))], 0, FALSE)
      [] opcode = 19 ->                                                              \* INX D
            Arm([c EXCEPT !.registers = set_de(@, wrapping_add16(get_de(@), 1))], 0, FALSE)
      [] opcode = 35 ->                                                              \* INX H
            Arm([c EXCEPT !.registers = set_hl(@, wrapping_add16(get_hl(@), 1))], 0, FALSE)
      [] opcode = 51 -> Arm([c EXCEPT !.sp = wrapping_add16(@, 1)], 0, FALSE)        \* INX SP
      [] opcode = 11 ->                                                              \* DCX B
            Arm([c EXCEPT !.registers = set_bc(@, wrapping_sub16(get_bc(@), 1))], 0, FALSE)
      [] opcode = 27 ->                                                              \* DCX D
            Arm([c EXCEPT !.registers = set_de(@, wrapping_sub16(get_de(@), 1))], 0, FALSE)
      [] opcode = 43 ->                                                              \* DCX H
            Arm([c EXCEPT !.registers = set_hl(@, wrapping_sub16(get_hl(@), 1))], 0, FALSE)
      [] opcode = 59 -> Arm([c EXCEPT !.sp = wrapping_sub16(@, 1)], 0, FALSE)        \* DCX SP
      [] opcode = 235 -> Arm(xchg(c), 0, FALSE)                                      \* XCHG
      [] opcode = 227 -> Arm(xthl(c), 0, xthl_traps(c))                              \* XTHL
      [] opcode = 249 -> Arm([c EXCEPT !.sp = get_hl(c.registers)], 0, FALSE)        \* SPHL
      [] opcode = 1 -> Arm([c EXCEPT !.registers = set_bc(@, imm16(c))], 0, imm16_traps(c))  \* LXI B
      [] opcode = 17 -> Arm([c EXCEPT !.registers = set_de(@, imm16(c))], 0, imm16_traps(c)) \* LXI D
      [] opcode = 33 -> Arm([c EXCEPT !.registers = set_hl(@, imm16(c))], 0, imm16_traps(c)) \* LXI H
      [] opcode = 49 -> Arm([c EXCEPT !.sp = imm16(c)], 0, imm16_traps(c))           \* LXI SP
      [] opcode \in MviOpcodes ->                                                    \* MVI
            Arm(set_reg8(c, (opcode \div 8) % 8, imm8(c)), 0, imm8_traps(c))
      [] opcode \in {198, 206, 214, 222, 230, 238, 246, 254} ->        \* ADI .. CPI
            Arm(alu(c, (opcode \div 8) % 8, imm8(c)), 0, imm8_traps(c))
      [] opcode = 50 ->                                                              \* STA
            Arm([c EXCEPT !.bus = write_byte(@, imm16(c), c.registers.a)], 0, imm16_traps(c))
      [] opcode = 58 ->                                                              \* LDA
            Arm([c EXCEPT !.registers.a = read_byte(c.bus, imm16(c))], 0, imm16_traps(c))
      [] opcode = 34 ->                                                              \* SHLD
            Arm([c EXCEPT !.bus = write_word(@, imm16(c), get_hl(c.registers))],
                0, imm16_traps(c) \/ write_word_traps(c.bus, imm16(c)))
      [] opcode = 42 ->                                                              \* LHLD
            Arm([c EXCEPT !.registers = set_hl(@, read_word(c.bus, imm16(c)))],
                0, imm16_traps(c) \/ read_word_traps(imm16(c)))
      [] opcode = 233 -> Arm([c EXCEPT !.pc = get_hl(c.registers)], 0, FALSE)        \* PCHL
      [] opcode = 195 -> Arm([c EXCEPT !.pc = imm16(c)], 0, imm16_traps(c))          \* JMP
      [] opcode \in ConditionalJumps ->                                \* JC .. JPO
            IF condition(c, opcode)
            THEN Arm([c EXCEPT !.pc = imm16(c)], 0, imm16_traps(c))
            ELSE Arm([c EXCEPT !.pc = wrapping_add16(@, 3)],
                     0, imm16_traps(c) \/ overflows16(c.pc, 3))
      [] opcode = 205 ->                                                             \* CALL
            Arm([subroutine_stack_push(c) EXCEPT !.pc = imm16(c)],
                0, imm16_traps(c) \/ subroutine_stack_push_traps(c))
      [] opcode \in ConditionalCalls ->                                \* CC .. CPO
            IF condition(c, opcode)
            THEN Arm([subroutine_stack_push(c) EXCEPT !.pc = imm16(c)],
                     call_penalty(opcode),
                     imm16_traps(c) \/ subroutine_stack_push_traps(c))
            ELSE Arm([c EXCEPT !.pc = wrapping_add16(@, 3)],
                     0, imm16_traps(c) \/ overflows16(c.pc, 3))
      [] opcode = 201 -> Arm(subroutine_stack_pop(c), 0, subroutine_stack_pop_traps(c))  \* RET
      [] opcode \in ConditionalReturns ->                              \* RC .. RPO
            IF condition(c, opcode)
            THEN Arm(subroutine_stack_pop(c), return_penalty(opcode),
                     subroutine_stack_pop_traps(c))
            ELSE Arm([c EXCEPT !.pc = wrapping_add16(@, 1)], 0, overflows16(c.pc, 1))
      [] opcode = 251 -> Arm([c EXCEPT !.inte = TRUE], 0, FALSE)                     \* EI
      [] opcode = 243 -> Arm([c EXCEPT !.inte = FALSE], 0, FALSE)                    \* DI
      [] opcode \in Restarts -> rst(c, opcode, direct_rst)                           \* RST 0..7
      [] opcode = 219 ->                                                             \* IN
            [Arm(io_in_arm(c), 0, imm8_traps(c)) EXCEPT !.call = in_callback_call(c)]
      [] opcode = 211 ->                                                             \* OUT
            [Arm(io_out_arm(c), 0, imm8_traps(c)) EXCEPT !.call = out_callback_call(c)]
      [] OTHER -> Arm(c, 0, FALSE)

\* const CYCLES: [u8; 256]
CYCLES ==
    << 4, 10, 7, 5, 5, 5, 7, 4, 4, 10, 7, 5, 5, 5, 7, 4,
       4, 10, 7, 5, 5, 5, 7, 4, 4, 10, 7, 5, 5, 5, 7, 4,
       4, 10, 16, 5, 5, 5, 7, 4, 4, 10, 16, 5, 5, 5, 7, 4,
       4, 10, 13, 5, 10, 10, 10, 4, 4, 10, 13, 5, 5, 5, 7, 4,
       5, 5, 5, 5, 5, 5, 7, 5, 5, 5, 5, 5, 5, 5, 7, 5,
       5, 5, 5, 5, 5, 5, 7, 5, 5, 5, 5, 5, 5, 5, 7, 5,
       5, 5, 5, 5, 5, 5, 7, 5, 5, 5, 5, 5, 5, 5, 7, 5,
       7, 7, 7, 7, 7, 7, 7, 7, 5, 5, 5, 5, 5, 5, 7, 5,
       4, 4, 4, 4, 4, 4, 7, 4, 4, 4, 4, 4, 4, 4, 7, 4,
       4, 4, 4, 4, 4, 4, 7, 4, 4, 4, 4, 4, 4, 4, 7, 4,
       4, 4, 4, 4, 4, 4, 7, 4, 4, 4, 4, 4, 4, 4, 7, 4,
       4, 4, 4, 4, 4, 4, 7, 4, 4, 4, 4, 4, 4, 4, 7, 4,
       5, 10, 10, 10, 11, 11, 7, 11, 5, 10, 10, 10, 11, 17, 7, 11,
       5, 10, 10, 10, 11, 11, 7, 11, 5, 10, 10, 10, 11, 17, 7, 11,
       5, 10, 10, 18, 11, 11, 7, 11, 5, 5, 10, 5, 11, 17, 7, 11,
       5, 10, 10, 4, 11, 11, 7, 11, 5, 5, 10, 4, 11, 17, 7, 11 >>

\* fetch that always reads memory at pc
fetch_from_memory(c) == read_byte(c.bus, c.pc)

\* fetch that takes a pending request whatever INTE is
fetch_ignores_inte(c) == IF c.int[1] THEN c.int[2] ELSE read_byte(c.bus, c.pc)

\* the opcode used by this step: the injected one when INTE and a request is pending
fetch(c) == IF c.inte /\ c.int[1] THEN c.int[2] ELSE read_byte(c.bus, c.pc)

\* acknowledge with INTE left set
acknowledge_keeps_inte(c) ==
    IF c.inte /\ c.int[1] THEN [c EXCEPT !.int = <<FALSE, 0>>] ELSE c

\* acknowledge with the request left in the slot
acknowledge_keeps_request(c) ==
    IF c.inte /\ c.int[1] THEN [c EXCEPT !.inte = FALSE] ELSE c

\* interrupts enabled and pending: disable interrupts, clear the request
acknowledge(c) ==
    IF c.inte /\ c.int[1] THEN [c EXCEPT !.inte = FALSE, !.int = <<FALSE, 0>>] ELSE c

\* the opcodes whose arm sets pc itself
SetsPc ==
    {233, 195} \cup ConditionalJumps \cup {205} \cup ConditionalCalls
        \cup {201} \cup ConditionalReturns \cup Restarts

TwoByteOpcodes == MviOpcodes \cup {198, 206, 214, 222, 230, 238, 246, 254} \cup {219, 211}

ThreeByteOpcodes == {50, 58, 34, 42, 1, 17, 33, 49}

\* the closing match with MVI (HL),d8 (0x36) left out of the two-byte row
pc_advance_short_mvi_m(opcode) ==
    CASE opcode \in SetsPc -> 0
      [] opcode \in TwoByteOpcodes \ {54} -> 2
      [] opcode \in ThreeByteOpcodes -> 3
      [] OTHER -> 1

\* the closing match with 0xCB, 0xDD, 0xED and 0xFD given the three bytes of the
\* JMP and CALL they alias on the 8080
pc_advance_long_aliases(opcode) ==
    CASE opcode \in SetsPc -> 0
      [] opcode \in TwoByteOpcodes -> 2
      [] opcode \in ThreeByteOpcodes \cup {203, 221, 237, 253} -> 3
      [] OTHER -> 1

\* the closing match of execute: how far pc is moved (0: the arm has set it)
pc_advance(opcode) ==
    CASE opcode \in SetsPc -> 0
      [] opcode \in TwoByteOpcodes -> 2
      [] opcode \in ThreeByteOpcodes -> 3
      [] OTHER -> 1

\* self.dasm(pc): the bytes of the instruction at address, as many as the
\* closing match of execute gives the opcode (three for the jumps and calls)
dasm(bus, address) ==
    LET opcode == read_byte(bus, address)
        b1     == read_byte(bus, wrapping_add16(address, 1))
        b2     == read_byte(bus, wrapping_add16(address, 2))
    IN  IF opcode \in ThreeByteOpcodes \cup {195, 205}
                         \cup ConditionalJumps \cup ConditionalCalls
            THEN <<opcode, b1, b2>>
        ELSE IF opcode \in TwoByteOpcodes THEN <<opcode, b1>>
        ELSE <<opcode>>

\* the format! of the debug string reads self.bus.read_word(self.sp), whose
\* `address + 1` is a plain u16 addition; an RST formats nothing
debug_trace_traps(c, opcode) ==
    c.debug.switch /\ opcode \notin Restarts /\ read_word_traps(c.sp)

\* if self.debug.switch { self.debug.string = ... }: "RST" for an RST, else the
\* disassembly at the pc the call began with, that pc, sp, the flags, the
\* registers and the word at sp, all as the arm has left them
debug_trace(c, opcode, pc) ==
    IF ~c.debug.switch THEN c
    ELSE IF opcode \in Restarts THEN [c EXCEPT !.debug.string = <<"RST">>]
    ELSE [c EXCEPT !.debug.string =
             <<dasm(c.bus, pc), pc, c.sp, c.flags, c.registers,
               read_word(c.bus, c.sp)>>]

\* execute without the halt test at its head
execute_without_halt_test(c) ==
    LET opcode     == fetch(c)
        direct_rst == ~(c.inte /\ c.int[1])
        arm        == decode(acknowledge(c), opcode, direct_rst)
        traced     == debug_trace(arm.c, opcode, c.pc)
        n          == pc_advance(opcode)
    IN  [ c      |-> [traced EXCEPT !.pc = wrapping_add16(@, n)],
          cycles |-> CYCLES[opcode + 1] + arm.extra,
          trap   |-> \/ arm.trap
                     \/ debug_trace_traps(arm.c, opcode)
                     \/ overflows16(arm.c.pc, n),
          call   |-> arm.call ]

\* execute that leaves pc to the arm when the opcode was injected, as the 8080
\* does during an interrupt acknowledge cycle
execute_injected_keeps_pc(c) ==
    IF c.halt THEN [c |-> c, cycles |-> 0, trap |-> FALSE, call |-> <<>>]
    ELSE LET opcode     == fetch(c)
             direct_rst == ~(c.inte /\ c.int[1])
             arm        == decode(acknowledge(c), opcode, direct_rst)
             traced     == debug_trace(arm.c, opcode, c.pc)
             n          == IF direct_rst THEN pc_advance(opcode) ELSE 0
         IN  [ c      |-> [traced EXCEPT !.pc = wrapping_add16(@, n)],
               cycles |-> CYCLES[opcode + 1] + arm.extra,
               trap   |-> \/ arm.trap
                          \/ debug_trace_traps(arm.c, opcode)
                          \/ overflows16(arm.c.pc, n),
               call   |-> arm.call ]

\* CPU::execute: the CPU after the call, the value returned, whether a plain
\* u16 addition overflowed on the way, and the callback invocation made
execute(c) ==
    IF c.halt THEN [c |-> c, cycles |-> 0, trap |-> FALSE, call |-> <<>>]
    ELSE LET opcode     == fetch(c)
             direct_rst == ~(c.inte /\ c.int[1])
             arm        == decode(acknowledge(c), opcode, direct_rst)
             traced     == debug_trace(arm.c, opcode, c.pc)
             n          == pc_advance(opcode)
         IN  [ c      |-> [traced EXCEPT !.pc = wrapping_add16(@, n)],
               cycles |-> CYCLES[opcode + 1] + arm.extra,
               trap   |-> \/ arm.trap
                          \/ debug_trace_traps(arm.c, opcode)
                          \/ overflows16(arm.c.pc, n),
               call   |-> arm.call ]

\* x + n passes u32::MAX, for x a u32 and n at most 0xFFFF; written on the two
\* 16-bit halves of x
overflows32(x, n) == x \div 65536 = 65535 /\ (x % 65536) + n > 65535

\* (x + n) mod 2^32 for such x and n
wrapping_add32(x, n) == IF overflows32(x, n) THEN (x % 65536) + n - 65536 ELSE x + n

\* self.slice_current_cycles += cycles is a plain u32 addition
slice_traps(c, cycles) == overflows32(c.slice_current_cycles, cycles)

\* the head of execute_slice: the counter goes back to 0 once it has passed
\* slice_max_cycles (the sleep and slice_start_time are wall-clock only)
slice_reset(c) ==
    IF c.slice_current_cycles > c.slice_max_cycles
    THEN [c EXCEPT !.slice_current_cycles = 0]
    ELSE c

\* execute_slice that never puts the counter back to 0
execute_slice_without_reset(c) ==
    LET r == execute(c)
    IN  [ c      |-> [r.c EXCEPT !.slice_current_cycles = wrapping_add32(@, r.cycles)],
          cycles |-> r.cycles,
          trap   |-> r.trap \/ slice_traps(r.c, r.cycles),
          call   |-> r.call ]

\* CPU::execute_slice
execute_slice(c) ==
    LET r == execute(slice_reset(c))
    IN  [ c      |-> [r.c EXCEPT !.slice_current_cycles = wrapping_add32(@, r.cycles)],
          cycles |-> r.cycles,
          trap   |-> r.trap \/ slice_traps(r.c, r.cycles),
          call   |-> r.call ]

(***************************************************************************)
(* The host's set-up.  CPU::new() gives the all-zero CPU; before the run   *)
(* the host assigns the pub fields (pc, sp, registers, flags, inte,        *)
(* bus.rom_space) and writes an image with write_byte.                     *)
(***************************************************************************)
MaxSteps == 3

MaxArms == 1

\* write_byte of every byte of the image, from origin upwards (addresses wrap)
RECURSIVE load_image(_, _, _)
load_image(bus, image, origin) ==
    IF image = <<>> THEN bus
    ELSE load_image(write_byte(bus, origin, Head(image)), Tail(image),
                    wrapping_add16(origin, 1))

\* a RET at each of the eight restart vectors
RECURSIVE plant_vectors(_, _)
plant_vectors(bus, n) ==
    IF n = 0 THEN write_byte(bus, 0, 201)
    ELSE plant_vectors(write_byte(bus, 8 * n, 201), n - 1)

FlagsAllSet == [s |-> TRUE, z |-> TRUE, a |-> TRUE, p |-> TRUE, c |-> TRUE]

\* BC = 0xFF05, DE = 0x3000, HL = 0xFF04
SetupRegisters == [a |-> 155, b |-> 255, c |-> 5, d |-> 48, e |-> 0, h |-> 255, l |-> 4]

\* every opcode followed by the operand bytes FE FE
Sweep == {<<op, 254, 254>> : op \in 0..255}

\* EI; HLT
EiHlt == <<251, 118>>

\* the ROM window 0xFEFF..0xFF0F lies over the top of the stack at 0xFF00
RomSpaces == {NoRom, SomeRom(65279, 65295)}

\* bytes that sit at 0xFEFE..0xFF01 before the window is set
Preloaded == <<170, 187, 204, 221>>

\* the opcodes the host arms an interrupt with: RST 0..7
InterruptOpcodes == Restarts

\* JMP, CALL and the conditional jumps and calls, with the operand 0x0008 (low
\* byte first), where a RET sits
Branches == {<<op, 8, 0>> : op \in {195, 205} \cup ConditionalJumps \cup ConditionalCalls}

\* PUSH rp; POP rp' for rp, rp' in B, D, H, PSW
PushPop == {<<push, pop>> : push \in {197, 213, 229, 245}, pop \in {193, 209, 225, 241}}

\* POP PSW; PUSH PSW, run with SP on the two bytes that follow: x, then 0x3C
PopPushPsw == {<<241, 245, x, 60>> : x \in Byte}

\* the set-ups explored: every opcode at 0x0100 with the stack at 0xFF00, with and
\* without the ROM window, INTE and the flags; every opcode with pc or sp at an
\* edge of the address space; the program EI; HLT; the branches to 0x0008; the
\* PUSH/POP pairs; and POP PSW; PUSH PSW over every flag byte
Setups ==
    [image : Sweep \cup {EiHlt}, origin : {256}, sp : {65280},
     flags : {Flags_new, FlagsAllSet}, inte : BOOLEAN, rom : RomSpaces]
    \cup
    [image : Sweep, origin : {65534, 65535}, sp : {65280},
     flags : {Flags_new}, inte : {FALSE}, rom : {NoRom}]
    \cup
    [image : Sweep, origin : {256}, sp : {0, 1, 65535},
     flags : {Flags_new}, inte : {FALSE}, rom : {NoRom}]
    \cup
    [image : Branches \cup PushPop, origin : {256}, sp : {65280, 1},
     flags : {Flags_new, FlagsAllSet}, inte : {FALSE}, rom : {NoRom}]
    \cup
    [image : PopPushPsw, origin : {256}, sp : {258},
     flags : {Flags_new}, inte : {FALSE}, rom : {NoRom}]

Setup(u) ==
    LET b0 == load_image(plant_vectors(AddressBus_new, 7), Preloaded, 65278)
        b1 == load_image(b0, u.image, u.origin)
    IN  [CPU_new EXCEPT !.registers = SetupRegisters, !.flags = u.flags,
                        !.pc = u.origin, !.sp = u.sp, !.inte = u.inte,
                        !.bus = [b1 EXCEPT !.rom_space = u.rom]]

NoOp == [op |-> "none"]

\* the record of an operation, with the record of the one before it
Remember(this, before) ==
    this @@ [prev |-> [f \in (DOMAIN before) \ {"prev"} |-> before[f]]]

Init ==
    /\ \E u \in Setups : cpu = Setup(u)
    /\ overflow_checks \in BOOLEAN
    /\ panicked = FALSE
    /\ rom_image = cpu.bus.address_space
    /\ last = NoOp
    /\ steps = 0
    /\ arms = 0

(***************************************************************************)
(* Actions                                                                 *)
(***************************************************************************)
\* c.execute(), while fewer than `bound` operations have run
ExecuteWithin(bound) ==
    /\ ~panicked
    /\ steps < bound
    /\ LET r == execute(cpu)
       IN  /\ panicked' = (overflow_checks /\ r.trap)
           /\ cpu' = IF panicked' THEN cpu ELSE r.c
           /\ last' = Remember([ op       |-> "execute",
                                  pre      |-> cpu,
                                  opcode   |-> fetch(cpu),
                                  injected |-> (~cpu.halt /\ cpu.inte /\ cpu.int[1]),
                                  returned |-> ~panicked',
                                  cycles   |-> r.cycles,
                                  call     |-> r.call ], last)
    /\ steps' = steps + 1
    /\ UNCHANGED <<overflow_checks, rom_image, arms>>

\* c.execute()
Execute == ExecuteWithin(MaxSteps)

\* c.int = (true, opcode), for an opcode of the set given
SetPendingInterruptFrom(opcodes) ==
    /\ ~panicked
    /\ steps < MaxSteps
    /\ arms < MaxArms
    /\ ~cpu.int[1]
    /\ \E opcode \in opcodes :
          /\ cpu' = [cpu EXCEPT !.int = <<TRUE, opcode>>]
          /\ last' = Remember([op |-> "set_int", pre |-> cpu, opcode |-> opcode], last)
    /\ steps' = steps + 1
    /\ arms' = arms + 1
    /\ UNCHANGED <<overflow_checks, panicked, rom_image>>

\* c.int = (true, opcode): the host arms an interrupt request
SetPendingInterrupt == SetPendingInterruptFrom(InterruptOpcodes)

Next == Execute \/ SetPendingInterrupt

Spec == Init /\ [][Next]_vars

(***************************************************************************)
(* The bus on its own: the host calls write_byte, write_word, read_word    *)
(* and read_le_word, and sets the ROM window.                              *)
(***************************************************************************)
MaxBusOps == 2

\* the window 0x2000..0x2003
BusRomSpace == SomeRom(8192, 8195)

\* start-1, start, inside, end, end+1, and the two top addresses
BusAddresses == {8191, 8192, 8193, 8195, 8196, 65534, 65535}

BusBytes == {85}

BusWords == {7139}

BusInit ==
    /\ \E rom \in {NoRom, BusRomSpace} :
          cpu = [CPU_new EXCEPT !.bus =
                    [load_image(load_image(AddressBus_new, Preloaded, 8191),
                                Preloaded, 65534)
                        EXCEPT !.rom_space = rom]]
    /\ overflow_checks \in BOOLEAN
    /\ panicked = FALSE
    /\ rom_image = cpu.bus.address_space
    /\ last = NoOp
    /\ steps = 0
    /\ arms = 0

BusStep ==
    /\ ~panicked
    /\ steps < MaxBusOps
    /\ steps' = steps + 1
    /\ UNCHANGED <<overflow_checks, arms>>

\* c.bus.rom_space = Some(ROMSpace{start, end})
SetRomSpace ==
    /\ BusStep
    /\ cpu.bus.rom_space = NoRom
    /\ cpu' = [cpu EXCEPT !.bus.rom_space = BusRomSpace]
    /\ rom_image' = cpu.bus.address_space
    /\ last' = Remember([op |-> "set_rom", pre |-> cpu], last)
    /\ UNCHANGED panicked

\* c.bus.write_byte(address, data)
WriteByte ==
    /\ BusStep
    /\ \E address \in BusAddresses, data \in BusBytes :
          /\ cpu' = [cpu EXCEPT !.bus = write_byte(@, address, data)]
          /\ last' = Remember([op |-> "write_byte", pre |-> cpu, address |-> address,
                               data |-> data, returned |-> TRUE], last)
    /\ UNCHANGED <<panicked, rom_image>>

\* c.bus.write_word(address, data)
WriteWord ==
    /\ BusStep
    /\ \E address \in BusAddresses, data \in BusWords :
          /\ panicked' = (overflow_checks /\ write_word_traps(cpu.bus, address))
          /\ cpu' = IF panicked' THEN cpu
                    ELSE [cpu EXCEPT !.bus = write_word(@, address, data)]
          /\ last' = Remember([op |-> "write_word", pre |-> cpu, address |-> address,
                               data |-> data, returned |-> ~panicked'], last)
    /\ UNCHANGED rom_image

\* c.bus.read_word(address)
ReadWord ==
    /\ BusStep
    /\ \E address \in BusAddresses :
          /\ panicked' = (overflow_checks /\ read_word_traps(address))
          /\ last' = Remember([op |-> "read_word", pre |-> cpu, address |-> address,
                               value |-> read_word(cpu.bus, address),
                               returned |-> ~panicked'], last)
    /\ UNCHANGED <<cpu, rom_image>>

\* c.bus.read_le_word(address)
ReadLeWord ==
    /\ BusStep
    /\ \E address \in BusAddresses :
          /\ panicked' = (overflow_checks /\ read_word_traps(address))
          /\ last' = Remember([op |-> "read_le_word", pre |-> cpu, address |-> address,
                               value |-> read_le_word(cpu.bus, address),
                               returned |-> ~panicked'], last)
    /\ UNCHANGED <<cpu, rom_image>>

\* a file that cannot be opened, and a three-byte image
BusFiles == {NoFile, SomeFile(<<17, 34, 51>>)}

\* the image over the lower edge of the window, over its upper edge, ending on
\* the last cell, and running one and two cells past it
BusOrigins == {8191, 8195, 65533, 65534, 65535}

\* c.bus.load_bin(file, org)
LoadBin ==
    /\ BusStep
    /\ \E file \in BusFiles, org \in BusOrigins :
          /\ panicked' = load_bin_panics(file, org)
          /\ cpu' = IF panicked' THEN cpu
                    ELSE [cpu EXCEPT !.bus = load_bin(@, file, org).bus]
          /\ last' = Remember([op |-> "load_bin", pre |-> cpu, file |-> file,
                               org |-> org,
                               result |-> IF panicked' THEN <<>>
                                          ELSE load_bin(cpu.bus, file, org).result,
                               returned |-> ~panicked'], last)
    /\ UNCHANGED rom_image

BusNext == SetRomSpace \/ WriteByte \/ WriteWord \/ ReadWord \/ ReadLeWord \/ LoadBin

BusSpec == BusInit /\ [][BusNext]_vars

(***************************************************************************)
(* The ports: programs of IN and OUT, with the host registering callbacks, *)
(* storing into the port-in latches and clearing the OUT mailbox.          *)
(***************************************************************************)
IoDevices == {1, 2}

IoValues == {0, 5, 9}

\* OUT d; IN e, IN d; OUT e, OUT d; OUT e and OUT d; INR A; OUT e
IoPrograms ==
    {<<211, d, 219, e>> : d \in IoDevices, e \in IoDevices}
        \cup {<<219, d, 211, e>> : d \in IoDevices, e \in IoDevices}
        \cup {<<211, d, 211, e>> : d \in IoDevices, e \in IoDevices}
        \cup {<<211, d, 60, 211, e>> : d \in IoDevices, e \in IoDevices}

\* a callback that returns None and one that returns Some(7)
Callbacks == {<<"nil">>, <<"some", 7>>}

IoSetups ==
    [image : IoPrograms, origin : {256}, sp : {65280},
     flags : {Flags_new}, inte : {FALSE}, rom : {NoRom}]

IoInit ==
    /\ \E u \in IoSetups : cpu = Setup(u)
    /\ overflow_checks \in BOOLEAN
    /\ panicked = FALSE
    /\ rom_image = cpu.bus.address_space
    /\ last = NoOp
    /\ steps = 0
    /\ arms = 0

HostStep ==
    /\ ~panicked
    /\ steps < MaxSteps
    /\ steps' = steps + 1
    /\ UNCHANGED <<overflow_checks, panicked, rom_image, arms>>

\* c.set_cb_out(cb)
SetCbOut ==
    /\ HostStep
    /\ cpu.out_callback = <<"none">>
    /\ \E cb \in Callbacks :
          /\ cpu' = set_cb_out(cpu, cb)
          /\ last' = Remember([op |-> "set_cb_out", pre |-> cpu], last)

\* c.set_cb_in(cb)
SetCbIn ==
    /\ HostStep
    /\ cpu.in_callback = <<"none">>
    /\ \E cb \in Callbacks :
          /\ cpu' = set_cb_in(cpu, cb)
          /\ last' = Remember([op |-> "set_cb_in", pre |-> cpu], last)

\* c.bus.set_io_in(device, value)
SetIoIn ==
    /\ HostStep
    /\ \E device \in IoDevices, value \in IoValues :
          /\ cpu' = [cpu EXCEPT !.bus = set_io_in(@, device, value)]
          /\ last' = Remember([op |-> "set_io_in", pre |-> cpu,
                               device |-> device, value |-> value], last)

\* c.bus.clear_io_out()
ClearIoOut ==
    /\ HostStep
    /\ cpu' = [cpu EXCEPT !.bus = clear_io_out(@)]
    /\ last' = Remember([op |-> "clear_io_out", pre |-> cpu], last)

IoNext == Execute \/ SetCbOut \/ SetCbIn \/ SetIoIn \/ ClearIoOut

IoSpec == IoInit /\ [][IoNext]_vars

(***************************************************************************)
(* The accumulator arithmetic on its own: one instruction at 0x0100, run   *)
(* with A, the operand and the incoming carry drawn from the values below. *)
(* The operand n is put where each form reads it: in B, C, D and E, in     *)
(* memory at HL (0xFF04) and in the byte after the opcode; the H and L     *)
(* forms read 0xFF and 0x04, the A form reads A.                           *)
(***************************************************************************)
\* high nibbles 0, 7, 8, F with low nibbles 0, 1, 7, 8, E, F
AluBytes == {16 * h + l : h \in {0, 7, 8, 15}, l \in {0, 1, 7, 8, 14, 15}}

\* the accumulator group: ADD, ADC, SUB, SBB, ANA, XRA, ORA, CMP r/M (0x80..0xBF)
\* and ADI, ACI, SUI, SBI, ANI, XRI, ORI, CPI
AluOpcodes == (128..191) \cup {198, 206, 214, 222, 230, 238, 246, 254}

AluSetup(opcode, a, n, cy) ==
    LET c == Setup([image |-> <<opcode, n>>, origin |-> 256, sp |-> 65280,
                    flags |-> Flags_new, inte |-> FALSE, rom |-> NoRom])
    IN  [c EXCEPT !.registers.a = a, !.registers.b = n, !.registers.c = n,
                  !.registers.d = n, !.registers.e = n,
                  !.bus = write_byte(@, get_hl(c.registers), n),
                  !.flags.c = cy]

\* flag states before an operation: none set, all set, only the carry, all but
\* the carry, only the auxiliary carry
FlagsOnlyCarry == [Flags_new EXCEPT !.c = TRUE]

FlagsAllButCarry == [FlagsAllSet EXCEPT !.c = FALSE]

FlagsOnlyAux == [Flags_new EXCEPT !.a = TRUE]

AluFlags == {Flags_new, FlagsAllSet, FlagsOnlyCarry, FlagsAllButCarry, FlagsOnlyAux}

\* a ROM window over the upper half of the address space
UpperRom == SomeRom(32768, 65535)

\* INR and DCR of the seven registers and of the byte at HL, every register and
\* that byte holding n; the ROM window is set after the byte is loaded
IncSetup(opcode, n, flags, rom) ==
    LET c == Setup([image |-> <<opcode>>, origin |-> 256, sp |-> 65280,
                    flags |-> flags, inte |-> FALSE, rom |-> NoRom])
    IN  [c EXCEPT !.registers = [a |-> n, b |-> n, c |-> n, d |-> n, e |-> n,
                                 h |-> n, l |-> n],
                  !.bus = [write_byte(@, 256 * n + n, n) EXCEPT !.rom_space = rom]]

\* DAA at 0x0100 with A = a
DaaSetup(a, flags) ==
    LET c == Setup([image |-> <<39>>, origin |-> 256, sp |-> 65280,
                    flags |-> flags, inte |-> FALSE, rom |-> NoRom])
    IN  [c EXCEPT !.registers.a = a]

\* 16-bit operands at the edges of the carry and of the sign
DadWords == {0, 1, 255, 256, 4660, 32767, 32768, 65534, 65535}

\* DAD B (0x09), DAD D (0x19), DAD H (0x29), DAD SP (0x39)
DadOpcodes == {9, 25, 41, 57}

\* DAD rp at 0x0100 with HL = hl and BC = DE = SP = rp
DadSetup(opcode, hl, rp, flags) ==
    LET c == Setup([image |-> <<opcode>>, origin |-> 256, sp |-> rp,
                    flags |-> flags, inte |-> FALSE, rom |-> NoRom])
    IN  [c EXCEPT !.registers = set_hl(set_de(set_bc(@, rp), rp), hl)]

AluInit ==
    /\ \/ \E opcode \in AluOpcodes, a \in AluBytes, n \in AluBytes, cy \in BOOLEAN :
             cpu = AluSetup(opcode, a, n, cy)
       \/ \E opcode \in InrOpcodes \cup DcrOpcodes, n \in Byte, flags \in AluFlags :
             cpu = IncSetup(opcode, n, flags, NoRom)
       \/ \E opcode \in {52, 53}, n \in Byte, flags \in {Flags_new, FlagsAllSet} :
             cpu = IncSetup(opcode, n, flags, UpperRom)
       \/ \E a \in Byte, flags \in AluFlags :
             cpu = DaaSetup(a, flags)
       \/ \E opcode \in DadOpcodes, hl \in DadWords, rp \in DadWords,
             flags \in {Flags_new, FlagsAllSet} :
             cpu = DadSetup(opcode, hl, rp, flags)
    /\ overflow_checks \in BOOLEAN
    /\ panicked = FALSE
    /\ rom_image = cpu.bus.address_space
    /\ last = NoOp
    /\ steps = 0
    /\ arms = 0

AluNext == Execute

AluSpec == AluInit /\ [][AluNext]_vars

(***************************************************************************)
(* Decimal addition: ADD B, ADC B, ADI or ACI of a packed-BCD byte to a      *)
(* packed-BCD A, followed by DAA.                                            *)
(***************************************************************************)
\* the packed-BCD byte of v in 0..99
Packed(v) == 16 * (v \div 10) + (v % 10)

Decimals == 0..99

\* ADD B, ADC B, ADI, ACI
BcdOpcodes == {128, 136, 198, 206}

BcdSetup(opcode, x, y, cy) ==
    LET image == IF opcode \in {198, 206} THEN <<opcode, Packed(y), 39>>
                                          ELSE <<opcode, 39>>
        c     == Setup([image |-> image, origin |-> 256, sp |-> 65280,
                        flags |-> Flags_new, inte |-> FALSE, rom |-> NoRom])
    IN  [c EXCEPT !.registers.a = Packed(x), !.registers.b = Packed(y),
                  !.flags.c = cy]

BcdInit ==
    /\ \E opcode \in BcdOpcodes, x \in Decimals, y \in Decimals, cy \in BOOLEAN :
          cpu = BcdSetup(opcode, x, y, cy)
    /\ overflow_checks \in BOOLEAN
    /\ panicked = FALSE
    /\ rom_image = cpu.bus.address_space
    /\ last = NoOp
    /\ steps = 0
    /\ arms = 0

BcdNext == Execute

BcdSpec == BcdInit /\ [][BcdNext]_vars

(***************************************************************************)
(* Rotations: runs of RLC, RRC, RAL and RAR on every A, long enough for nine *)
(* RALs.  B and C hold the A and the carry the run starts with.              *)
(***************************************************************************)
MaxRotations == 9

\* RAL nine times
NineRals == <<23, 23, 23, 23, 23, 23, 23, 23, 23>>

\* RLC = 0x07, RRC = 0x0F, RAL = 0x17, RAR = 0x1F
RotatePrograms ==
    {NineRals, <<23, 31>>, <<31, 23>>, <<7, 15>>, <<15, 7>>, <<15>>, <<31>>}

RotateSetup(image, a, flags) ==
    LET c == Setup([image |-> image, origin |-> 256, sp |-> 65280,
                    flags |-> flags, inte |-> FALSE, rom |-> NoRom])
    IN  [c EXCEPT !.registers.a = a, !.registers.b = a,
                  !.registers.c = b2n(flags.c)]

RotateInit ==
    /\ \E image \in RotatePrograms, a \in Byte, flags \in AluFlags :
          cpu = RotateSetup(image, a, flags)
    /\ overflow_checks \in BOOLEAN
    /\ panicked = FALSE
    /\ rom_image = cpu.bus.address_space
    /\ last = NoOp
    /\ steps = 0
    /\ arms = 0

ExecuteRotation == ExecuteWithin(MaxRotations)

RotateNext == ExecuteRotation

RotateSpec == RotateInit /\ [][RotateNext]_vars

(***************************************************************************)
(* The debug trace: every opcode run with the switch off and on, the host     *)
(* free to flip the switch between calls.                                     *)
(***************************************************************************)
\* the stack pointer in mid-memory and on the last cell
DebugStacks == {65280, 65535}

DebugSetup(image, sp, switch) ==
    [Setup([image |-> image, origin |-> 256, sp |-> sp, flags |-> Flags_new,
            inte |-> FALSE, rom |-> NoRom])
        EXCEPT !.debug.switch = switch]

DebugInit ==
    /\ \E image \in Sweep, sp \in DebugStacks, switch \in BOOLEAN :
          cpu = DebugSetup(image, sp, switch)
    /\ overflow_checks \in BOOLEAN
    /\ panicked = FALSE
    /\ rom_image = cpu.bus.address_space
    /\ last = NoOp
    /\ steps = 0
    /\ arms = 0

\* c.debug.switch = !c.debug.switch: the host turns the trace on or off
SetDebugSwitch ==
    /\ ~panicked
    /\ steps < MaxSteps
    /\ cpu' = [cpu EXCEPT !.debug.switch = ~@]
    /\ last' = Remember([op |-> "set_debug", pre |-> cpu], last)
    /\ steps' = steps + 1
    /\ UNCHANGED <<overflow_checks, panicked, rom_image, arms>>

DebugNext == Execute \/ SetDebugSwitch

DebugSpec == DebugInit /\ [][DebugNext]_vars

(***************************************************************************)
(* Paced execution: every opcode run through execute_slice and execute, with *)
(* slice budgets small enough for the counter to pass them within the run.   *)
(***************************************************************************)
\* slice_max_cycles: nothing, one or two instructions' worth, and the default
SliceBudgets == {0, 10, 35000}

SliceSetup(image, origin, budget) ==
    [Setup([image |-> image, origin |-> origin, sp |-> 65280, flags |-> Flags_new,
            inte |-> FALSE, rom |-> NoRom])
        EXCEPT !.slice_max_cycles = budget]

SliceInit ==
    /\ \E image \in Sweep, origin \in {256, 65535}, budget \in SliceBudgets :
          cpu = SliceSetup(image, origin, budget)
    /\ overflow_checks \in BOOLEAN
    /\ panicked = FALSE
    /\ rom_image = cpu.bus.address_space
    /\ last = NoOp
    /\ steps = 0
    /\ arms = 0

\* c.execute_slice()
ExecuteSlice ==
    /\ ~panicked
    /\ steps < MaxSteps
    /\ LET r == execute_slice(cpu)
       IN  /\ panicked' = (overflow_checks /\ r.trap)
           /\ cpu' = IF panicked' THEN cpu ELSE r.c
           /\ last' = Remember([ op       |-> "execute_slice",
                                  pre      |-> cpu,
                                  opcode   |-> fetch(cpu),
                                  injected |-> (~cpu.halt /\ cpu.inte /\ cpu.int[1]),
                                  returned |-> ~panicked',
                                  cycles   |-> r.cycles,
                                  call     |-> r.call ], last)
    /\ steps' = steps + 1
    /\ UNCHANGED <<overflow_checks, rom_image, arms>>

SliceNext == ExecuteSlice \/ Execute

SliceSpec == SliceInit /\ [][SliceNext]_vars

(***************************************************************************)
(* The small loop of the crate documentation: MVI A,$0F; DCR A; JNZ $0102;   *)
(* RET, written into a new CPU and run by a host loop that calls execute     *)
(* until pc is 0x0000.  The host may have turned the debug trace on.         *)
(***************************************************************************)
\* the calls the host loop is followed for
MaxDemoCalls == 40

\* CPU::new(), pc = 0x0100, and the six writes of the example
DemoSetup(switch) ==
    LET b0 == write_byte(AddressBus_new, 256, 62)
        b1 == write_byte(b0, 257, 15)
        b2 == write_byte(b1, 258, 61)
        b3 == write_byte(b2, 259, 194)
        b4 == write_word(b3, 260, 258)
        b5 == write_byte(b4, 262, 201)
    IN  [CPU_new EXCEPT !.pc = 256, !.bus = b5, !.debug.switch = switch]

DemoInit ==
    /\ \E switch \in BOOLEAN : cpu = DemoSetup(switch)
    /\ overflow_checks \in BOOLEAN
    /\ panicked = FALSE
    /\ rom_image = cpu.bus.address_space
    /\ last = NoOp
    /\ steps = 0
    /\ arms = 0

\* loop { c.execute(); if c.pc == 0x0000 { break } }
DemoExecute ==
    /\ cpu.pc # 0
    /\ ExecuteWithin(MaxDemoCalls)

DemoNext == DemoExecute

DemoSpec == DemoInit /\ [][DemoNext]_vars

\* the host loop has no other exit: it calls execute again while pc is not 0
DemoLiveSpec == DemoSpec /\ WF_vars(DemoNext)

(***************************************************************************)
(* Injection of any opcode: the host arms the request with an opcode of its  *)
(* choice, RST or not, over a program whose first opcode is INR A.           *)
(***************************************************************************)
\* INR A followed by the two operand bytes of the sweep
InjectImages == {<<60, 254, 254>>}

InjectInit ==
    /\ \E image \in InjectImages, flags \in {Flags_new, FlagsAllSet}, inte \in BOOLEAN :
          cpu = Setup([image |-> image, origin |-> 256, sp |-> 65280,
                       flags |-> flags, inte |-> inte, rom |-> NoRom])
    /\ overflow_checks \in BOOLEAN
    /\ panicked = FALSE
    /\ rom_image = cpu.bus.address_space
    /\ last = NoOp
    /\ steps = 0
    /\ arms = 0

\* c.int = (true, opcode) with any byte for opcode
SetPendingOpcode == SetPendingInterruptFrom(Byte)

InjectNext == Execute \/ SetPendingOpcode

InjectSpec == InjectInit /\ [][InjectNext]_vars

(***************************************************************************)
(* One request at a time: the host arms an RST, or NOP, MVI A, DI or EI,     *)
(* before or between the calls of a program that enables interrupts itself.  *)
(***************************************************************************)
RequestOpcodes == Restarts \cup {0, 62, 243, 251}

\* EI; NOP; HLT, and INR A with an operand byte to spare
RequestImages == {<<251, 0, 118>>, <<60, 254, 254>>}

RequestInit ==
    /\ \E image \in RequestImages, inte \in BOOLEAN :
          cpu = Setup([image |-> image, origin |-> 256, sp |-> 65280,
                       flags |-> Flags_new, inte |-> inte, rom |-> NoRom])
    /\ overflow_checks \in BOOLEAN
    /\ panicked = FALSE
    /\ rom_image = cpu.bus.address_space
    /\ last = NoOp
    /\ steps = 0
    /\ arms = 0

\* c.int = (true, opcode) with one of the request opcodes
SetPendingRequest == SetPendingInterruptFrom(RequestOpcodes)

RequestNext == Execute \/ SetPendingRequest

RequestSpec == RequestInit /\ [][RequestNext]_vars

(***************************************************************************)
(* Stores into ROM: every opcode with the stack and HL inside the window     *)
(* 0xFEFF..0xFF0F, and the same set-ups without the window.                  *)
(***************************************************************************)
\* sp on a word of the window (XTHL), and two above one (PUSH, CALL, RST)
RomStacks == {65280, 65282}

RomInit ==
    /\ \E image \in Sweep, sp \in RomStacks, flags \in {Flags_new, FlagsAllSet},
          rom \in RomSpaces :
          cpu = Setup([image |-> image, origin |-> 256, sp |-> sp,
                       flags |-> flags, inte |-> FALSE, rom |-> rom])
    /\ overflow_checks \in BOOLEAN
    /\ panicked = FALSE
    /\ rom_image = cpu.bus.address_space
    /\ last = NoOp
    /\ steps = 0
    /\ arms = 0

RomNext == Execute

RomSpec == RomInit /\ [][RomNext]_vars

(***************************************************************************)
(* Properties                                                              *)
(***************************************************************************)
\* the last operation was an execute call that returned
Executed == last.op = "execute" /\ last.returned

\* the two address spaces agree everywhere but on the addresses in S
SameMemoryExcept(m1, m2, S) ==
    \A a \in ((DOMAIN m1) \cup (DOMAIN m2)) \ S : load(m1, a) = load(m2, a)

\* n of RST n
RstNumber(opcode) == (opcode - 199) \div 8

\* the last execute call acknowledged an interrupt armed with an RST
AcknowledgedRst ==
    /\ Executed
    /\ ~last.pre.halt
    /\ last.pre.inte
    /\ last.pre.int[1]
    /\ last.pre.int[2] \in Restarts

\* what an acknowledged RST n leaves, the stack word apart: pc = 8n, sp - 2, INTE
\* off, the request cleared, and nothing that the byte at pc could have changed
AcknowledgeEffects ==
    LET pre == last.pre
        sp  == wrapping_sub16(pre.sp, 2)
    IN  /\ cpu.pc = 8 * RstNumber(pre.int[2])
        /\ cpu.sp = sp
        /\ ~cpu.inte
        /\ cpu.int = <<FALSE, 0>>
        /\ cpu.halt = pre.halt
        /\ cpu.registers = pre.registers
        /\ cpu.flags = pre.flags
        /\ SameMemoryExcept(cpu.bus.address_space, pre.bus.address_space,
                            {sp, wrapping_add16(sp, 1)})

\* C1 (as amended): with INTE set and an RST n pending, a non-halted execute call
\* does not execute the byte at PC and ends with PC = 8n, SP - 2, INTE false and
\* the request cleared; the word at the new SP is pc0 provided the new SP lies
\* outside the ROM window.
C1_InterruptAcknowledge ==
    AcknowledgedRst =>
        /\ AcknowledgeEffects
        /\ ~in_rom_space(last.pre.bus, cpu.sp) => read_word(cpu.bus, cpu.sp) = last.pre.pc

\* C1 witness: RST 1 acknowledged, pc0 on the stack
C1_Witness ==
    /\ AcknowledgedRst
    /\ last.pre.int[2] = 207
    /\ cpu.pc = 8
    /\ read_word(cpu.bus, cpu.sp) = last.pre.pc
    /\ read_byte(last.pre.bus, last.pre.pc) # 0

\* C1 as stated: the word at the new SP is pc0 in every non-halted state
C1_AsStated ==
    AcknowledgedRst =>
        /\ AcknowledgeEffects
        /\ read_word(cpu.bus, cpu.sp) = last.pre.pc

\* C2: with INTE false a pending request changes nothing: the opcode comes from
\* memory at PC, the call ends as it would with no request pending, and the
\* request stays as it was.
C2_PendingIgnoredWhileDisabled ==
    (last.op = "execute" /\ ~last.pre.inte /\ last.pre.int[1]) =>
        LET quiet == execute([last.pre EXCEPT !.int = <<FALSE, 0>>])
        IN  /\ last.opcode = read_byte(last.pre.bus, last.pre.pc)
            /\ last.returned = ~(overflow_checks /\ quiet.trap)
            /\ last.returned =>
                  /\ cpu = [quiet.c EXCEPT !.int = last.pre.int]
                  /\ last.cycles = quiet.cycles

\* C2 witness: an instruction ran to its end under a pending, disabled request
C2_Witness ==
    /\ Executed
    /\ ~last.pre.inte
    /\ last.pre.int[1]
    /\ ~last.pre.halt
    /\ cpu.pc # last.pre.pc
    /\ cpu.int = last.pre.int

\* the last execute call ran an RST, fetched or injected
RestartExecuted == Executed /\ ~last.pre.halt /\ last.opcode \in Restarts

\* the address an RST is to push: pc0 + 1 when fetched, pc0 when injected
RstReturnAddress(l) == IF l.injected THEN l.pre.pc ELSE wrapping_add16(l.pre.pc, 1)

\* the last execute call ran a RET right after an RST
ReturnAfterRestart ==
    /\ Executed
    /\ ~last.pre.halt
    /\ last.opcode = 201
    /\ last.prev.op = "execute"
    /\ last.prev.returned
    /\ ~last.prev.pre.halt
    /\ last.prev.opcode \in Restarts

\* C3 (as amended): RST n sets PC = 8n and SP - 2; provided the new SP lies
\* outside the ROM window it stores pc0 + 1 when fetched and pc0 when injected,
\* and a RET that follows at once returns there with SP restored.
C3_RstReturnAddress ==
    /\ RestartExecuted =>
          /\ cpu.pc = 8 * RstNumber(last.opcode)
          /\ cpu.sp = wrapping_sub16(last.pre.sp, 2)
          /\ ~in_rom_space(last.pre.bus, cpu.sp) =>
                read_word(cpu.bus, cpu.sp) = RstReturnAddress(last)
    /\ (ReturnAfterRestart /\ ~in_rom_space(last.prev.pre.bus, last.pre.sp)) =>
          /\ cpu.pc = RstReturnAddress(last.prev)
          /\ cpu.sp = last.prev.pre.sp

\* C3 witness: a RET resumed at the interrupted instruction
C3_Witness ==
    /\ ReturnAfterRestart
    /\ last.prev.injected
    /\ cpu.pc = last.prev.pre.pc
    /\ cpu.sp = last.prev.pre.sp

\* C3 as stated: the return address is on the stack after every RST
C3_AsStated ==
    /\ RestartExecuted =>
          /\ cpu.pc = 8 * RstNumber(last.opcode)
          /\ cpu.sp = wrapping_sub16(last.pre.sp, 2)
          /\ read_word(cpu.bus, cpu.sp) = RstReturnAddress(last)
    /\ ReturnAfterRestart =>
          /\ cpu.pc = RstReturnAddress(last.prev)
          /\ cpu.sp = last.prev.pre.sp

\* C4: HLT sets the halt latch and moves PC by 1; an execute call on a halted CPU
\* returns 0 and changes nothing.
C4_HaltFreezes ==
    /\ (Executed /\ ~last.pre.halt /\ last.opcode = 118) =>
          /\ cpu.halt
          /\ cpu.pc = wrapping_add16(last.pre.pc, 1)
    /\ (last.op = "execute" /\ last.pre.halt) =>
          /\ last.returned
          /\ last.cycles = 0
          /\ cpu = last.pre

\* C4 witness: two execute calls in a row on a halted CPU
C4_Witness ==
    /\ last.op = "execute"
    /\ last.pre.halt
    /\ last.prev.op = "execute"
    /\ last.prev.pre.halt
    /\ last.cycles = 0

\* C5: an execute call on a halted CPU with INTE set and a request pending
\* acknowledges the request and leaves the halt state.
C5_InterruptEndsHalt ==
    (last.op = "execute" /\ last.pre.halt /\ last.pre.inte /\ last.pre.int[1]) =>
        /\ ~cpu.halt
        /\ ~cpu.inte
        /\ ~cpu.int[1]

\* C6: every byte inside the ROM window holds the value it had when the window
\* was set.
C6_RomImmutable ==
    cpu.bus.rom_space # NoRom =>
        \A a \in cpu.bus.rom_space[1].start .. cpu.bus.rom_space[1].end :
            load(cpu.bus.address_space, a) = load(rom_image, a)

\* exactly one of address and address + 1 lies inside the ROM window
Straddles(bus, address) ==
    /\ bus.rom_space # NoRom
    /\ in_rom_space(bus, address) # in_rom_space(bus, wrapping_add16(address, 1))

\* C7: a write_word over the edge of the ROM window changes neither byte.
C7_StraddlingWriteIsNoOp ==
    (last.op = "write_word" /\ last.returned /\ Straddles(last.pre.bus, last.address)) =>
        /\ read_byte(cpu.bus, last.address) = read_byte(last.pre.bus, last.address)
        /\ read_byte(cpu.bus, wrapping_add16(last.address, 1))
              = read_byte(last.pre.bus, wrapping_add16(last.address, 1))
        /\ read_word(cpu.bus, last.address) = read_word(last.pre.bus, last.address)

\* the little-endian word at address, the second byte taken modulo 2^16
LittleEndianWord(bus, address) ==
    read_byte(bus, address) + 256 * read_byte(bus, (address + 1) % 65536)

\* C8: at every address, 0xFFFF included, read_word returns the little-endian
\* word with the address wrapping; without a ROM window write_word then
\* read_word gives the word back and read_le_word gives it with its bytes swapped.
C8_WordAccessWraps ==
    /\ last.op = "read_word" =>
          last.returned /\ last.value = LittleEndianWord(last.pre.bus, last.address)
    /\ (last.op = "write_word" /\ last.pre.bus.rom_space = NoRom) =>
          /\ last.returned
          /\ read_word(cpu.bus, last.address) = last.data
          /\ read_le_word(cpu.bus, last.address)
                = 256 * (last.data % 256) + (last.data \div 256)

\* the instruction length of the closing table
Length(opcode) ==
    CASE opcode \in {1, 17, 33, 49, 50, 58, 34, 42} -> 3
      [] opcode \in {6, 14, 22, 30, 38, 46, 54, 62,
                     198, 206, 214, 222, 230, 238, 246, 254, 219, 211} -> 2
      [] OTHER -> 1

\* jumps, calls, returns, RST and PCHL
ControlTransfer ==
    {195, 218, 210, 202, 194, 250, 242, 234, 226,
     205, 220, 212, 204, 196, 252, 244, 236, 228,
     201, 216, 208, 200, 192, 248, 240, 232, 224,
     199, 207, 215, 223, 231, 239, 247, 255, 233}

\* C9: every execute call on a non-halted CPU returns, with PC moved modulo 2^16.
C9_ExecuteTotal ==
    (last.op = "execute" /\ ~last.pre.halt) =>
        /\ last.returned
        /\ last.opcode \notin ControlTransfer =>
              cpu.pc = (last.pre.pc + Length(last.opcode)) % 65536

\* C10: after an opcode outside the control-transfer set PC is pc0 + L, L the
\* length of the opcode, whatever the registers, flags and memory hold.
C10_PcFollowsLength ==
    (Executed /\ ~last.pre.halt /\ last.opcode \notin ControlTransfer) =>
        cpu.pc = (last.pre.pc + Length(last.opcode)) % 65536

\* C10 witness: a three-byte and state-changing instruction moved PC by 3
C10_Witness ==
    /\ Executed
    /\ ~last.pre.halt
    /\ last.opcode = 34
    /\ cpu.pc = last.pre.pc + 3
    /\ cpu.bus.address_space # last.pre.bus.address_space

\* the flag condition named by the mnemonic of a conditional jump, call or return
ConditionHolds(f, opcode) ==
    CASE opcode \in {218, 220, 216} -> f.c          \* JC, CC, RC
      [] opcode \in {210, 212, 208} -> ~f.c         \* JNC, CNC, RNC
      [] opcode \in {202, 204, 200} -> f.z          \* JZ, CZ, RZ
      [] opcode \in {194, 196, 192} -> ~f.z         \* JNZ, CNZ, RNZ
      [] opcode \in {250, 252, 248} -> f.s          \* JM, CM, RM
      [] opcode \in {242, 244, 240} -> ~f.s         \* JP, CP, RP
      [] opcode \in {234, 236, 232} -> f.p          \* JPE, CPE, RPE
      [] opcode \in {226, 228, 224} -> ~f.p         \* JPO, CPO, RPO
      [] OTHER -> FALSE

\* the 16-bit operand after the opcode at pc, low byte first
Operand16(c) ==
    read_byte(c.bus, (c.pc + 1) % 65536) + 256 * read_byte(c.bus, (c.pc + 2) % 65536)

\* the last execute call ran the opcode it fetched from memory, and returned
Fetched == Executed /\ ~last.pre.halt /\ ~last.injected

\* C11: a conditional call whose condition holds pushes pc0 + 3, takes 2 from SP,
\* sets PC to the operand and returns 17 cycles; one whose condition does not
\* hold returns 11 cycles, sets PC = pc0 + 3 and leaves SP and memory unchanged.
C11_ConditionalCalls ==
    (Fetched /\ last.opcode \in {220, 212, 204, 196, 252, 244, 236, 228}) =>
        LET pre == last.pre
        IN  IF ConditionHolds(pre.flags, last.opcode)
            THEN /\ cpu.pc = Operand16(pre)
                 /\ cpu.sp = wrapping_sub16(pre.sp, 2)
                 /\ read_word(cpu.bus, cpu.sp) = wrapping_add16(pre.pc, 3)
                 /\ last.cycles = 17
            ELSE /\ last.cycles = 11
                 /\ cpu.pc = wrapping_add16(pre.pc, 3)
                 /\ cpu.sp = pre.sp
                 /\ cpu.bus.address_space = pre.bus.address_space

\* the word in memory at address, low byte first, the address wrapping
WordAt(bus, address) ==
    read_byte(bus, address) + 256 * read_byte(bus, (address + 1) % 65536)

\* C12: a conditional return whose condition holds sets PC to the word at SP,
\* adds 2 to SP and returns 11 cycles; one whose condition does not hold returns
\* 5 cycles, sets PC = pc0 + 1 and leaves SP unchanged; RET pops PC, adds 2 to
\* SP and returns 10 cycles.
C12_Returns ==
    /\ (Fetched /\ last.opcode \in {216, 208, 200, 192, 248, 240, 232, 224}) =>
          LET pre == last.pre
          IN  IF ConditionHolds(pre.flags, last.opcode)
              THEN /\ cpu.pc = WordAt(pre.bus, pre.sp)
                   /\ cpu.sp = wrapping_add16(pre.sp, 2)
                   /\ last.cycles = 11
              ELSE /\ last.cycles = 5
                   /\ cpu.pc = wrapping_add16(pre.pc, 1)
                   /\ cpu.sp = pre.sp
    /\ (Fetched /\ last.opcode = 201) =>
          /\ cpu.pc = WordAt(last.pre.bus, last.pre.sp)
          /\ cpu.sp = wrapping_add16(last.pre.sp, 2)
          /\ last.cycles = 10

\* C12 witness: RC taken, to the word 0xDDCC found on the stack
C12_Witness ==
    /\ Fetched
    /\ last.opcode = 216
    /\ last.pre.flags.c
    /\ last.cycles = 11
    /\ cpu.pc = 56780
    /\ cpu.sp = 65282

\* C13: a conditional jump sets PC to its operand (low byte first) when the
\* tested flag has the required value and to pc0 + 3 otherwise; either way it
\* returns 10 cycles and changes no register, flag, SP or memory byte.  JMP
\* always sets PC to its operand.
C13_Jumps ==
    /\ (Fetched /\ last.opcode \in {218, 210, 202, 194, 250, 242, 234, 226}) =>
          LET pre == last.pre
          IN  /\ cpu.pc = IF ConditionHolds(pre.flags, last.opcode)
                          THEN Operand16(pre) ELSE wrapping_add16(pre.pc, 3)
              /\ last.cycles = 10
              /\ cpu.registers = pre.registers
              /\ cpu.flags = pre.flags
              /\ cpu.sp = pre.sp
              /\ cpu.bus.address_space = pre.bus.address_space
    /\ (Fetched /\ last.opcode = 195) => cpu.pc = Operand16(last.pre)

\* C13 witness: JPE 0x0008 (bytes EA 08 00) taken from 0x0100
C13_Witness ==
    /\ Fetched
    /\ last.opcode = 234
    /\ last.pre.pc = 256
    /\ last.pre.flags.p
    /\ cpu.pc = 8
    /\ last.cycles = 10

\* the last operation was an execute call, returned or not, on the opcode in memory
FetchedCall == last.op = "execute" /\ ~last.pre.halt /\ ~last.injected

\* the last execute call was on a RET, right after a CALL that returned
ReturnAfterCall ==
    /\ FetchedCall
    /\ last.opcode = 201
    /\ last.prev.op = "execute"
    /\ last.prev.returned
    /\ ~last.prev.pre.halt
    /\ ~last.prev.injected
    /\ last.prev.opcode = 205

\* C14: with no ROM window, for every pc0, SP and target, CALL target at pc0
\* leaves PC = target, SP = SP0 - 2 and pc0 + 3 at SP0 - 2, low byte at the lower
\* address; a RET executed next restores PC = pc0 + 3 and SP = SP0.
C14_CallRetRoundTrip ==
    /\ (FetchedCall /\ last.opcode = 205 /\ last.pre.bus.rom_space = NoRom) =>
          LET pre == last.pre
              ret == (pre.pc + 3) % 65536
          IN  /\ last.returned
              /\ cpu.pc = Operand16(pre)
              /\ cpu.sp = (pre.sp + 65534) % 65536
              /\ read_byte(cpu.bus, cpu.sp) = ret % 256
              /\ read_byte(cpu.bus, (cpu.sp + 1) % 65536) = ret \div 256
    /\ (ReturnAfterCall /\ last.prev.pre.bus.rom_space = NoRom) =>
          /\ last.returned
          /\ cpu.pc = (last.prev.pre.pc + 3) % 65536
          /\ cpu.sp = last.prev.pre.sp

\* bit k of the byte x
Bit(x, k) == (x \div (2 ^ k)) % 2

\* the flag byte of the PSW: S, Z, 0, A, 0, P, 1, C from bit 7 down to bit 0
PackedFlags(f) ==
    (IF f.s THEN 128 ELSE 0) + (IF f.z THEN 64 ELSE 0) + (IF f.a THEN 16 ELSE 0)
        + (IF f.p THEN 4 ELSE 0) + 2 + (IF f.c THEN 1 ELSE 0)

\* the 16-bit value PUSH rp puts on the stack: high byte first-named register (or
\* A), low byte the second (or the flag byte)
Pushed(c, opcode) ==
    CASE opcode = 197 -> 256 * c.registers.b + c.registers.c
      [] opcode = 213 -> 256 * c.registers.d + c.registers.e
      [] opcode = 229 -> 256 * c.registers.h + c.registers.l
      [] OTHER -> 256 * c.registers.a + PackedFlags(c.flags)

\* the pair loaded by POP rp' holds the 16-bit value v (for PSW: A and the five flags)
PairHolds(c, opcode, v) ==
    CASE opcode = 193 -> c.registers.b = v \div 256 /\ c.registers.c = v % 256
      [] opcode = 209 -> c.registers.d = v \div 256 /\ c.registers.e = v % 256
      [] opcode = 225 -> c.registers.h = v \div 256 /\ c.registers.l = v % 256
      [] OTHER -> /\ c.registers.a = v \div 256
                  /\ c.flags.s = (Bit(v, 7) = 1)
                  /\ c.flags.z = (Bit(v, 6) = 1)
                  /\ c.flags.a = (Bit(v, 4) = 1)
                  /\ c.flags.p = (Bit(v, 2) = 1)
                  /\ c.flags.c = (Bit(v, 0) = 1)

\* the last execute call was on a POP, right after a PUSH that returned
PopAfterPush ==
    /\ FetchedCall
    /\ last.opcode \in {193, 209, 225, 241}
    /\ last.prev.op = "execute"
    /\ last.prev.returned
    /\ ~last.prev.pre.halt
    /\ ~last.prev.injected
    /\ last.prev.opcode \in {197, 213, 229, 245}

\* C15: with no ROM window, for every SP and every pair, PUSH rp takes 2 from SP
\* and stores the low byte (the flag byte for PSW) at the lower address and the
\* high byte (A for PSW) at the higher; a POP rp' executed next leaves rp' equal
\* to the pushed rp and SP as it was before the PUSH.
C15_PushPopRoundTrip ==
    /\ (FetchedCall /\ last.opcode \in {197, 213, 229, 245}
            /\ last.pre.bus.rom_space = NoRom) =>
          LET v == Pushed(last.pre, last.opcode)
          IN  /\ last.returned
              /\ cpu.sp = (last.pre.sp + 65534) % 65536
              /\ read_byte(cpu.bus, cpu.sp) = v % 256
              /\ read_byte(cpu.bus, (cpu.sp + 1) % 65536) = v \div 256
    /\ (PopAfterPush /\ last.prev.pre.bus.rom_space = NoRom) =>
          /\ last.returned
          /\ PairHolds(cpu, last.opcode, Pushed(last.prev.pre, last.prev.opcode))
          /\ cpu.sp = last.prev.pre.sp

\* (x | 0x02) & 0xD7
PswMasked(x) ==
    128 * Bit(x, 7) + 64 * Bit(x, 6) + 16 * Bit(x, 4) + 4 * Bit(x, 2) + 2 + Bit(x, 0)

\* the last execute call was on a PUSH PSW, right after a POP PSW that returned
PushPswAfterPopPsw ==
    /\ Fetched
    /\ last.opcode = 245
    /\ last.prev.op = "execute"
    /\ last.prev.returned
    /\ ~last.prev.pre.halt
    /\ ~last.prev.injected
    /\ last.prev.opcode = 241

\* C16: after POP PSW of the byte x the flags S, Z, A, P, C are bits 7, 6, 4, 2, 0
\* of x and the packed byte is (x | 0x02) & 0xD7, which is what a PUSH PSW then
\* stores; in every reachable state the packed byte has bit 1 set and bits 3 and
\* 5 clear.
C16_PswPacking ==
    /\ Bit(as_byte(cpu.flags), 1) = 1
    /\ Bit(as_byte(cpu.flags), 3) = 0
    /\ Bit(as_byte(cpu.flags), 5) = 0
    /\ (Fetched /\ last.opcode = 241) =>
          LET x == read_byte(last.pre.bus, last.pre.sp)
          IN  /\ cpu.flags.s = (Bit(x, 7) = 1)
              /\ cpu.flags.z = (Bit(x, 6) = 1)
              /\ cpu.flags.a = (Bit(x, 4) = 1)
              /\ cpu.flags.p = (Bit(x, 2) = 1)
              /\ cpu.flags.c = (Bit(x, 0) = 1)
              /\ as_byte(cpu.flags) = PswMasked(x)
    /\ PushPswAfterPopPsw =>
          read_byte(cpu.bus, cpu.sp)
              = PswMasked(read_byte(last.prev.pre.bus, last.prev.pre.sp))

\* C16 witness: POP PSW of 0x28 (bits 3 and 5 only), then PUSH PSW stores 0x02
C16_Witness ==
    /\ PushPswAfterPopPsw
    /\ read_byte(last.prev.pre.bus, last.prev.pre.sp) = 40
    /\ read_byte(cpu.bus, cpu.sp) = 2
    /\ cpu.flags = Flags_new

\* the device byte that follows the opcode at pc
Operand8(c) == read_byte(c.bus, (c.pc + 1) % 65536)

\* the last execute call ran an OUT fetched from memory, and returned
OutExecuted == Fetched /\ last.opcode = 211

\* C17: with no out-callback, OUT d with A = v leaves get_io_out(d) = Some(v) and
\* None for every other device, which stays so until a further OUT or
\* clear_io_out; after clear_io_out every device reads None.  With an
\* out-callback, OUT invokes it with (d, v), whatever it returns changes
\* nothing, and the mailbox is left as it was.
C17_OutDelivery ==
    /\ (OutExecuted /\ last.pre.out_callback = <<"none">>) =>
          LET d == Operand8(last.pre)
          IN  /\ get_io_out(cpu.bus, d) = <<last.pre.registers.a>>
              /\ \A e \in Byte \ {d} : get_io_out(cpu.bus, e) = <<>>
    /\ (last.op \notin {"none", "clear_io_out"} /\ ~OutExecuted) =>
          \A e \in Byte : get_io_out(cpu.bus, e) = get_io_out(last.pre.bus, e)
    /\ last.op = "clear_io_out" =>
          \A e \in Byte : get_io_out(cpu.bus, e) = <<>>
    /\ (OutExecuted /\ last.pre.out_callback # <<"none">>) =>
          /\ last.call = <<"out", Operand8(last.pre), last.pre.registers.a>>
          /\ cpu = [last.pre EXCEPT !.pc = (last.pre.pc + 2) % 65536]

\* C17 witness: OUT 1 with A = 0x9B, then an IN, and the mailbox still holds it
C17_Witness ==
    /\ Fetched
    /\ last.opcode = 219
    /\ last.prev.op = "execute"
    /\ last.prev.opcode = 211
    /\ last.prev.pre.out_callback = <<"none">>
    /\ get_io_out(cpu.bus, 1) = <<155>>
    /\ get_io_out(cpu.bus, 2) = <<>>

\* C18: with no in-callback, IN d loads A from the latch of d, which holds what
\* the last set_io_in(d, .) stored (0 if none) whatever was stored for other
\* devices; with an in-callback A becomes v when it returns Some(v) and stays
\* when it returns None, the latch not being read.  IN moves PC by 2 and
\* changes no flag.
C18_InSource ==
    /\ last.op = "none" => \A e \in Byte : get_io_in(cpu.bus, e) = 0
    /\ last.op = "set_io_in" =>
          /\ get_io_in(cpu.bus, last.device) = last.value
          /\ \A e \in Byte \ {last.device} :
                get_io_in(cpu.bus, e) = get_io_in(last.pre.bus, e)
    /\ last.op \notin {"none", "set_io_in"} =>
          \A e \in Byte : get_io_in(cpu.bus, e) = get_io_in(last.pre.bus, e)
    /\ (Fetched /\ last.opcode = 219) =>
          LET pre == last.pre
              cb  == pre.in_callback
          IN  /\ cpu.registers.a =
                    CASE cb = <<"none">> -> get_io_in(pre.bus, Operand8(pre))
                      [] cb = <<"nil">>  -> pre.registers.a
                      [] OTHER           -> cb[2]
              /\ cpu.pc = (pre.pc + 2) % 65536
              /\ cpu.flags = pre.flags

\* C18 witness: IN 1 reads the 5 stored last for device 1, device 2 holding 9
C18_Witness ==
    /\ Fetched
    /\ last.opcode = 219
    /\ last.pre.in_callback = <<"none">>
    /\ Operand8(last.pre) = 1
    /\ last.prev.op = "set_io_in"
    /\ cpu.registers.a = 5
    /\ get_io_in(cpu.bus, 2) = 9

\* the last execute call came right after an EI that the program executed with a
\* request pending
ExecuteAfterEi ==
    /\ last.op = "execute"
    /\ last.prev.op = "execute"
    /\ last.prev.returned
    /\ ~last.prev.pre.halt
    /\ ~last.prev.injected
    /\ last.prev.opcode = 251
    /\ last.prev.pre.int[1]

\* C19: with a request pending and INTE false, EI completes as usual (PC + 1,
\* request untouched) and the next execute call acknowledges the request; DI
\* leaves INTE false, a call made with INTE false acknowledges nothing, and INTE
\* goes from false to true by an executed EI only.
C19_EiDiAtNextFetch ==
    /\ (Fetched /\ last.opcode = 251 /\ last.pre.int[1]) =>
          /\ cpu.pc = (last.pre.pc + 1) % 65536
          /\ cpu.int = last.pre.int
          /\ cpu.inte
    /\ ExecuteAfterEi =>
          /\ last.injected
          /\ last.opcode = last.prev.pre.int[2]
          /\ last.returned =>
                /\ ~cpu.inte
                /\ cpu.int = <<FALSE, 0>>
                /\ last.opcode \in Restarts => cpu.pc = 8 * RstNumber(last.opcode)
    /\ (Fetched /\ last.opcode = 243) =>
          /\ ~cpu.inte
          /\ cpu.int = last.pre.int
    /\ (Executed /\ ~last.pre.inte) =>
          /\ ~last.injected
          /\ cpu.int = last.pre.int
    /\ (last.op # "none" /\ cpu.inte /\ ~last.pre.inte) =>
          /\ Fetched
          /\ last.opcode = 251

\* C19 witness: RST 2 armed with INTE false, EI executed, and the call after it
\* lands at 0x0010
C19_Witness ==
    /\ ExecuteAfterEi
    /\ last.returned
    /\ last.opcode = 215
    /\ cpu.pc = 16
    /\ ~cpu.inte
    /\ read_word(cpu.bus, cpu.sp) = last.pre.pc

\* the operand of a register, memory or immediate form of the accumulator group
AluOperand(c, opcode) ==
    IF opcode >= 192 THEN Operand8(c)
    ELSE CASE opcode % 8 = 0 -> c.registers.b
           [] opcode % 8 = 1 -> c.registers.c
           [] opcode % 8 = 2 -> c.registers.d
           [] opcode % 8 = 3 -> c.registers.e
           [] opcode % 8 = 4 -> c.registers.h
           [] opcode % 8 = 5 -> c.registers.l
           [] opcode % 8 = 6 -> read_byte(c.bus, 256 * c.registers.h + c.registers.l)
           [] OTHER -> c.registers.a

\* C20: ADD, ADI, ADC and ACI leave A = (A + n + cin) mod 256, C set iff
\* A + n + cin > 0xFF and the auxiliary carry set iff the low nibbles and cin add
\* up to more than 0x0F; cin is 0 for ADD/ADI and the incoming carry for ADC/ACI.
C20_AddAdc ==
    (Fetched /\ last.opcode \in (128..143) \cup {198, 206}) =>
        LET pre == last.pre
            a   == pre.registers.a
            n   == AluOperand(pre, last.opcode)
            cin == IF last.opcode \in (136..143) \cup {206} /\ pre.flags.c THEN 1 ELSE 0
        IN  /\ cpu.registers.a = (a + n + cin) % 256
            /\ cpu.flags.c = (a + n + cin > 255)
            /\ cpu.flags.a = ((a % 16) + (n % 16) + cin > 15)

\* C20 witness: ACI 0 on A = 0x0F with carry in gives 0x10, auxiliary carry set by
\* the carry alone
C20_Witness ==
    /\ Fetched
    /\ last.opcode = 206
    /\ last.pre.registers.a = 15
    /\ Operand8(last.pre) = 0
    /\ last.pre.flags.c
    /\ cpu.registers.a = 16
    /\ cpu.flags.a
    /\ ~cpu.flags.c

\* C21: SUB, SUI, SBB and SBI leave A = (A - n - bin) mod 256, C set iff
\* A < n + bin and the auxiliary carry set iff the low nibble of A minus the low
\* nibble of n minus bin is not negative; bin is 0 for SUB/SUI and the incoming
\* carry for SBB/SBI.
C21_SubSbb ==
    (Fetched /\ last.opcode \in (144..159) \cup {214, 222}) =>
        LET pre == last.pre
            a   == pre.registers.a
            n   == AluOperand(pre, last.opcode)
            bin == IF last.opcode \in (152..159) \cup {222} /\ pre.flags.c THEN 1 ELSE 0
        IN  /\ cpu.registers.a = (a - n - bin) % 256
            /\ cpu.flags.c = (a < n + bin)
            /\ cpu.flags.a = ((a % 16) - (n % 16) - bin >= 0)

\* C21 witness: SBI 0xFF on A = 0x80 with the carry set leaves A = 0x80 and sets
\* the carry
C21_Witness ==
    /\ Fetched
    /\ last.opcode = 222
    /\ last.pre.registers.a = 128
    /\ Operand8(last.pre) = 255
    /\ last.pre.flags.c
    /\ cpu.registers.a = 128
    /\ cpu.flags.c
    /\ ~cpu.flags.a

\* x has an even number of 1 bits
EvenParity(x) ==
    (Bit(x, 0) + Bit(x, 1) + Bit(x, 2) + Bit(x, 3)
     + Bit(x, 4) + Bit(x, 5) + Bit(x, 6) + Bit(x, 7)) % 2 = 0

\* C22: CMP r/M and CPI leave A, every other register, SP and memory unchanged
\* and set the flags as the subtraction A - n does: Z iff A = n, C iff A < n,
\* S, P and the auxiliary carry from the difference that is discarded.
C22_Compare ==
    (Fetched /\ last.opcode \in (184..191) \cup {254}) =>
        LET pre == last.pre
            a   == pre.registers.a
            n   == AluOperand(pre, last.opcode)
            d   == (a - n) % 256
        IN  /\ cpu.registers = pre.registers
            /\ cpu.sp = pre.sp
            /\ cpu.bus = pre.bus
            /\ cpu.flags = sub(pre, n).flags
            /\ cpu.flags.z = (a = n)
            /\ cpu.flags.c = (a < n)
            /\ cpu.flags.s = (d >= 128)
            /\ cpu.flags.p = EvenParity(d)
            /\ cpu.flags.a = ((a % 16) - (n % 16) >= 0)

\* C22 witness: CMP M with A = 0x07 and 0x08 at HL keeps A = 0x07 and sets C
\* and S, with Z clear
C22_Witness ==
    /\ Fetched
    /\ last.opcode = 190
    /\ last.pre.registers.a = 7
    /\ AluOperand(last.pre, 190) = 8
    /\ cpu.registers.a = 7
    /\ cpu.flags.c
    /\ cpu.flags.s
    /\ ~cpu.flags.z

\* the byte whose bit k is f applied to bit k of x and bit k of y
Bitwise(f(_, _), x, y) ==
    f(Bit(x, 0), Bit(y, 0)) + 2 * f(Bit(x, 1), Bit(y, 1))
    + 4 * f(Bit(x, 2), Bit(y, 2)) + 8 * f(Bit(x, 3), Bit(y, 3))
    + 16 * f(Bit(x, 4), Bit(y, 4)) + 32 * f(Bit(x, 5), Bit(y, 5))
    + 64 * f(Bit(x, 6), Bit(y, 6)) + 128 * f(Bit(x, 7), Bit(y, 7))

BitAnd(p, q) == p * q

BitOr(p, q) == p + q - p * q

BitXor(p, q) == (p + q) % 2

\* C23: ANA/ANI leave A = A & n with C cleared and the auxiliary carry set iff
\* bit 3 of (n | A) is set, A being the value before; XRA/XRI leave A = A ^ n and
\* ORA/ORI leave A = A | n, both with C and the auxiliary carry cleared.
C23_Logic ==
    (Fetched /\ last.opcode \in (160..183) \cup {230, 238, 246}) =>
        LET pre == last.pre
            a   == pre.registers.a
            n   == AluOperand(pre, last.opcode)
        IN  /\ ~cpu.flags.c
            /\ last.opcode \in (160..167) \cup {230} =>
                  /\ cpu.registers.a = Bitwise(BitAnd, a, n)
                  /\ cpu.flags.a = (Bit(a, 3) = 1 \/ Bit(n, 3) = 1)
            /\ last.opcode \in (168..175) \cup {238} =>
                  /\ cpu.registers.a = Bitwise(BitXor, a, n)
                  /\ ~cpu.flags.a
            /\ last.opcode \in (176..183) \cup {246} =>
                  /\ cpu.registers.a = Bitwise(BitOr, a, n)
                  /\ ~cpu.flags.a

\* C23 witness: ANI 0x70 on A = 0x08 with the carry set leaves A = 0, the
\* auxiliary carry set from bit 3 of A and the carry cleared
C23_Witness ==
    /\ Fetched
    /\ last.opcode = 230
    /\ last.pre.registers.a = 8
    /\ Operand8(last.pre) = 112
    /\ last.pre.flags.c
    /\ cpu.registers.a = 0
    /\ cpu.flags.a
    /\ ~cpu.flags.c

\* the operand of INR/DCR: bits 3..5 of the opcode select B, C, D, E, H, L, the
\* byte at HL or A
IncOperand(c, opcode) == AluOperand(c, opcode \div 8)

\* INR M or DCR M with HL inside the ROM window
IncIntoRom(c, opcode) ==
    opcode \in {52, 53} /\ in_rom_space(c.bus, 256 * c.registers.h + c.registers.l)

\* C24: INR and DCR of a register, or of the byte at HL when HL lies outside the
\* ROM window, leave the operand at (n + 1) mod 256 and (n - 1) mod 256; with HL
\* inside the window the byte keeps n.  In every case C stays as it was and the
\* auxiliary carry is set iff (n & 0x0F) + 1 > 0x0F for INR and iff the low nibble
\* of (n - 1) mod 256 is not 0x0F for DCR.
C24_IncDec ==
    (Fetched /\ last.opcode \in InrOpcodes \cup DcrOpcodes) =>
        LET pre == last.pre
            n   == IncOperand(pre, last.opcode)
            r   == IF last.opcode \in InrOpcodes THEN (n + 1) % 256 ELSE (n - 1) % 256
        IN  /\ IncOperand(cpu, last.opcode) = IF IncIntoRom(pre, last.opcode) THEN n ELSE r
            /\ cpu.flags.c = pre.flags.c
            /\ last.opcode \in InrOpcodes => cpu.flags.a = ((n % 16) + 1 > 15)
            /\ last.opcode \in DcrOpcodes => cpu.flags.a = ((r % 16) # 15)

\* C24 as stated: the operand, the byte at HL included, ends at n + 1 or n - 1
\* wherever HL points
C24_AsStated ==
    (Fetched /\ last.opcode \in InrOpcodes \cup DcrOpcodes) =>
        LET pre == last.pre
            n   == IncOperand(pre, last.opcode)
            r   == IncOperand(cpu, last.opcode)
        IN  /\ cpu.flags.c = pre.flags.c
            /\ last.opcode \in InrOpcodes =>
                  /\ r = (n + 1) % 256
                  /\ cpu.flags.a = ((n % 16) + 1 > 15)
            /\ last.opcode \in DcrOpcodes =>
                  /\ r = (n - 1) % 256
                  /\ cpu.flags.a = ((r % 16) # 15)

\* C24 witness: DCR M on 0x00 with the carry clear leaves 0xFF at HL, the
\* auxiliary carry clear and the carry still clear
C24_Witness ==
    /\ Fetched
    /\ last.opcode = 53
    /\ IncOperand(last.pre, 53) = 0
    /\ ~last.pre.flags.c
    /\ IncOperand(cpu, 53) = 255
    /\ ~cpu.flags.a
    /\ ~cpu.flags.c

\* the opcodes that set Z, S and P from an 8-bit result: the accumulator group
\* with its immediate forms, INR, DCR and DAA
FlagSetting == AluOpcodes \cup InrOpcodes \cup DcrOpcodes \cup {39}

\* the 8-bit result of the flag-setting operation that was last executed: the
\* difference A - n for CMP/CPI, the value INR/DCR computed for its operand (the
\* operand after, unless a ROM window kept it from being stored), else the new A
Result8 ==
    LET pre == last.pre
    IN  IF last.opcode \in (184..191) \cup {254}
            THEN (pre.registers.a - AluOperand(pre, last.opcode)) % 256
        ELSE IF last.opcode \in InrOpcodes
            THEN IF IncIntoRom(pre, last.opcode)
                     THEN (IncOperand(pre, last.opcode) + 1) % 256
                     ELSE IncOperand(cpu, last.opcode)
        ELSE IF last.opcode \in DcrOpcodes
            THEN IF IncIntoRom(pre, last.opcode)
                     THEN (IncOperand(pre, last.opcode) - 1) % 256
                     ELSE IncOperand(cpu, last.opcode)
        ELSE cpu.registers.a

\* C25: after ADD, ADC, SUB, SBB, ANA, XRA, ORA, CMP, their immediate forms, INR,
\* DCR and DAA, P is set iff the 8-bit result has an even number of 1 bits, Z iff
\* the result is 0, and S is bit 7 of the result.
C25_ZeroSignParity ==
    (Fetched /\ last.opcode \in FlagSetting) =>
        /\ cpu.flags.p = EvenParity(Result8)
        /\ cpu.flags.z = (Result8 = 0)
        /\ cpu.flags.s = (Bit(Result8, 7) = 1)

\* C25 witness: SUI 0x01 on A = 0x00 leaves 0xFF: eight 1 bits, so P and S are
\* set and Z is clear
C25_Witness ==
    /\ Fetched
    /\ last.opcode = 214
    /\ last.pre.registers.a = 0
    /\ Operand8(last.pre) = 1
    /\ Result8 = 255
    /\ cpu.flags.p
    /\ cpu.flags.s
    /\ ~cpu.flags.z

\* C26: with lo = A & 0x0F and hi = A >> 4 of the A before, DAA adds 0x06 iff
\* lo > 9 or the auxiliary carry is set, and adds 0x60 and sets C iff hi > 9 or C
\* is set or (hi >= 9 and lo > 9); when 0x60 is not added C keeps its value; the
\* auxiliary carry after is the carry out of bit 3 of the low-nibble addition, and
\* S, Z, P are those of the adjusted A.
C26_Daa ==
    (Fetched /\ last.opcode = 39) =>
        LET pre   == last.pre
            a     == pre.registers.a
            lo    == a % 16
            hi    == a \div 16
            six   == IF lo > 9 \/ pre.flags.a THEN 6 ELSE 0
            sixty == hi > 9 \/ pre.flags.c \/ (hi >= 9 /\ lo > 9)
            adj   == (a + six + (IF sixty THEN 96 ELSE 0)) % 256
        IN  /\ cpu.registers.a = adj
            /\ cpu.flags.c = (IF sixty THEN TRUE ELSE pre.flags.c)
            /\ pre.flags.c => cpu.flags.c
            /\ cpu.flags.a = (lo + six > 15)
            /\ cpu.flags.s = (adj >= 128)
            /\ cpu.flags.z = (adj = 0)
            /\ cpu.flags.p = EvenParity(adj)

\* C26 witness: DAA on A = 0x9A with both carries clear adds 0x66: A = 0x00 with
\* C, the auxiliary carry and Z set
C26_Witness ==
    /\ Fetched
    /\ last.opcode = 39
    /\ last.pre.registers.a = 154
    /\ ~last.pre.flags.a
    /\ ~last.pre.flags.c
    /\ cpu.registers.a = 0
    /\ cpu.flags.c
    /\ cpu.flags.a
    /\ cpu.flags.z

\* a fetched DAA that follows a fetched ADD B, ADC B, ADI or ACI on packed-BCD
\* bytes
DaaAfterAdd ==
    /\ Fetched
    /\ last.opcode = 39
    /\ last.prev.op = "execute"
    /\ last.prev.returned
    /\ ~last.prev.injected
    /\ last.prev.opcode \in BcdOpcodes
    /\ last.prev.pre.registers.a \in {Packed(v) : v \in Decimals}
    /\ AluOperand(last.prev.pre, last.prev.opcode) \in {Packed(v) : v \in Decimals}

\* the number a packed-BCD byte stands for
Unpacked(b) == 10 * (b \div 16) + (b % 16)

\* C27: for packed-BCD x and y and a carry cin, ADD or ADI (cin = 0) or ADC or ACI
\* (cin = the carry flag) of y to A = x followed by DAA leaves A = the packed BCD
\* of (x + y + cin) mod 100 and C set iff x + y + cin >= 100.
C27_BcdAddition ==
    DaaAfterAdd =>
        LET first == last.prev
            x     == Unpacked(first.pre.registers.a)
            y     == Unpacked(AluOperand(first.pre, first.opcode))
            cin   == IF first.opcode \in {136, 206} /\ first.pre.flags.c THEN 1 ELSE 0
        IN  /\ cpu.registers.a = Packed((x + y + cin) % 100)
            /\ cpu.flags.c = (x + y + cin >= 100)

\* C27 witness: 99 + 99 + 1 by ACI 0x99 on A = 0x99 with the carry set, then DAA:
\* A = 0x99 and C set
C27_Witness ==
    /\ DaaAfterAdd
    /\ last.prev.opcode = 206
    /\ last.prev.pre.registers.a = 153
    /\ Operand8(last.prev.pre) = 153
    /\ last.prev.pre.flags.c
    /\ cpu.registers.a = 153
    /\ cpu.flags.c

\* the last two execute calls fetched and ran `first`, then `second`
FetchedPair(first, second) ==
    /\ Fetched
    /\ last.opcode = second
    /\ last.prev.op = "execute"
    /\ last.prev.returned
    /\ ~last.prev.injected
    /\ ~last.prev.pre.halt
    /\ last.prev.opcode = first

\* nine RALs in a row have run: the nine at 0x0100..0x0108 are still there, the
\* last of them was fetched at 0x0108, and B and C still hold the A and the carry
\* the run started with
NineRalsDone ==
    /\ Fetched
    /\ last.opcode = 23
    /\ last.pre.pc = 256 + Len(NineRals) - 1
    /\ steps = Len(NineRals)
    /\ \A i \in 1..Len(NineRals) : read_byte(cpu.bus, 255 + i) = NineRals[i]

\* C28: RLC leaves A = ((A << 1) | bit 7) mod 256 with C = bit 7; RRC leaves
\* A = (A >> 1) | (bit 0 << 7) with C = bit 0; RAL leaves A = ((A << 1) | c) mod
\* 256 with C = bit 7; RAR leaves A = (A >> 1) | (c << 7) with C = bit 0, c being
\* the carry before.  None changes S, Z, the auxiliary carry or P.  RAL then RAR
\* restores A and C, RLC then RRC restores A, and nine RALs restore A and C.
C28_Rotates ==
    /\ (Fetched /\ last.opcode \in {7, 15, 23, 31}) =>
          LET pre == last.pre
              a   == pre.registers.a
              c   == IF pre.flags.c THEN 1 ELSE 0
          IN  /\ last.opcode = 7 =>
                    /\ cpu.registers.a = ((2 * a) % 256) + Bit(a, 7)
                    /\ cpu.flags.c = (Bit(a, 7) = 1)
              /\ last.opcode = 15 =>
                    /\ cpu.registers.a = (a \div 2) + 128 * Bit(a, 0)
                    /\ cpu.flags.c = (Bit(a, 0) = 1)
              /\ last.opcode = 23 =>
                    /\ cpu.registers.a = ((2 * a) % 256) + c
                    /\ cpu.flags.c = (Bit(a, 7) = 1)
              /\ last.opcode = 31 =>
                    /\ cpu.registers.a = (a \div 2) + 128 * c
                    /\ cpu.flags.c = (Bit(a, 0) = 1)
              /\ cpu.flags.s = pre.flags.s
              /\ cpu.flags.z = pre.flags.z
              /\ cpu.flags.a = pre.flags.a
              /\ cpu.flags.p = pre.flags.p
    /\ FetchedPair(23, 31) =>
          /\ cpu.registers.a = last.prev.pre.registers.a
          /\ cpu.flags.c = last.prev.pre.flags.c
    /\ FetchedPair(7, 15) => cpu.registers.a = last.prev.pre.registers.a
    /\ NineRalsDone =>
          /\ cpu.registers.a = cpu.registers.b
          /\ cpu.flags.c = (cpu.registers.c = 1)

\* C28 witness: nine RALs from A = 0xA5 with the carry set end with A = 0xA5 and
\* the carry set, the ninth shifting the carry back out of bit 7
C28_Witness ==
    /\ NineRalsDone
    /\ cpu.registers.b = 165
    /\ cpu.registers.c = 1
    /\ last.pre.registers.a = 210
    /\ last.pre.flags.c
    /\ cpu.registers.a = 165
    /\ cpu.flags.c

\* the 16-bit value of the pair h, l
Pair(h, l) == 256 * h + l

\* the register pair DAD adds to HL
DadOperand(c, opcode) ==
    CASE opcode = 9  -> Pair(c.registers.b, c.registers.c)
      [] opcode = 25 -> Pair(c.registers.d, c.registers.e)
      [] opcode = 41 -> Pair(c.registers.h, c.registers.l)
      [] opcode = 57 -> c.sp

\* C29: DAD B, DAD D, DAD H and DAD SP leave HL = (HL + rp) mod 2^16 and C set
\* iff HL + rp > 0xFFFF, keep S, Z, the auxiliary carry and P, and keep rp itself
\* unless rp is HL, which is doubled.
C29_Dad ==
    (Fetched /\ last.opcode \in DadOpcodes) =>
        LET pre == last.pre
            hl  == Pair(pre.registers.h, pre.registers.l)
            rp  == DadOperand(pre, last.opcode)
        IN  /\ Pair(cpu.registers.h, cpu.registers.l) = (hl + rp) % 65536
            /\ cpu.flags.c = (hl + rp > 65535)
            /\ cpu.flags.s = pre.flags.s
            /\ cpu.flags.z = pre.flags.z
            /\ cpu.flags.a = pre.flags.a
            /\ cpu.flags.p = pre.flags.p
            /\ last.opcode # 41 => DadOperand(cpu, last.opcode) = rp
            /\ last.opcode = 41 => DadOperand(cpu, last.opcode) = (2 * hl) % 65536

\* C29 witness: DAD SP with HL = 0xFFFF and SP = 0x0001 leaves HL = 0x0000 with
\* C set, SP still 0x0001 and the Z flag still clear
C29_Witness ==
    /\ Fetched
    /\ last.opcode = 57
    /\ Pair(last.pre.registers.h, last.pre.registers.l) = 65535
    /\ last.pre.sp = 1
    /\ ~last.pre.flags.z
    /\ ~last.pre.flags.c
    /\ Pair(cpu.registers.h, cpu.registers.l) = 0
    /\ cpu.sp = 1
    /\ cpu.flags.c
    /\ ~cpu.flags.z

\* MOV (0x40..0x7F but HLT), MVI, LXI, LDA, STA, LDAX, STAX, LHLD, SHLD, INX, DCX,
\* XCHG, XTHL, SPHL, PCHL, CMA, PUSH, POP B/D/H, NOP, HLT, EI, DI, IN, OUT, the
\* jumps, the calls, the returns and RST
FlagFrame ==
    ((64..127) \ {118}) \cup MviOpcodes \cup {1, 17, 33, 49} \cup {58, 50}
    \cup {10, 26, 2, 18} \cup {42, 34} \cup {3, 19, 35, 51} \cup {11, 27, 43, 59}
    \cup {235, 227, 249, 233, 47} \cup {197, 213, 229, 245} \cup {193, 209, 225}
    \cup {0, 118, 251, 243, 219, 211}
    \cup {195} \cup ConditionalJumps \cup {205} \cup ConditionalCalls
    \cup {201} \cup ConditionalReturns \cup Restarts

\* C30: executing one of the instructions of FlagFrame, fetched from memory or
\* injected by an interrupt, leaves S, Z, the auxiliary carry, P and C as they
\* were.
C30_FlagFrame ==
    (Executed /\ ~last.pre.halt /\ last.opcode \in FlagFrame) =>
        cpu.flags = last.pre.flags

\* C30 witness: a CALL taken with all five flags set arrives at its target with
\* all five still set
C30_Witness ==
    /\ Fetched
    /\ last.opcode = 205
    /\ last.pre.flags = FlagsAllSet
    /\ cpu.pc = Operand16(last.pre)
    /\ cpu.sp = (last.pre.sp - 2) % 65536
    /\ cpu.flags = FlagsAllSet

\* the twelve opcodes the 8080 data sheet leaves undefined: 0x08, 0x10, 0x18,
\* 0x20, 0x28, 0x30, 0x38, 0xCB, 0xD9, 0xDD, 0xED, 0xFD
Undocumented == {8, 16, 24, 32, 40, 48, 56, 203, 217, 221, 237, 253}

\* C31: an undocumented opcode fetched from memory runs as a NOP: registers,
\* flags, SP, the bus (memory, ROM window, input latches, OUT mailbox), halt,
\* INTE and the pending request are unchanged, PC advances by 1, and the value
\* returned is the opcode's entry in CYCLES.
C31_UndocumentedNop ==
    (Fetched /\ last.opcode \in Undocumented) =>
        /\ cpu = [last.pre EXCEPT !.pc = (@ + 1) % 65536]
        /\ last.cycles = CYCLES[last.opcode + 1]
        /\ last.call = <<>>

\* C31 witness: 0xDD at 0x0100 with all flags set returns 17 and leaves PC at
\* 0x0101 with the stack pointer where it was
C31_Witness ==
    /\ Fetched
    /\ last.opcode = 221
    /\ last.pre.pc = 256
    /\ last.pre.flags = FlagsAllSet
    /\ cpu.pc = 257
    /\ cpu.sp = last.pre.sp
    /\ cpu.flags = FlagsAllSet
    /\ last.cycles = 17

\* the last bus call was load_bin of a file that opens, with bytes buf
LoadedFile == last.op = "load_bin" /\ last.file # NoFile

\* C32: load_bin of an image that does not fit below 0x10000 returns an
\* image-too-large error and leaves memory unchanged; of a file that cannot be
\* opened, returns an I/O error and leaves memory unchanged; of an image that
\* fits, replaces exactly the bytes org .. org + length - 1 by the image.
C32_LoadBinResult ==
    /\ (LoadedFile /\ Len(last.file[1]) + last.org > 65536) =>
          /\ last.returned
          /\ last.result = <<"Err", "image-too-large">>
          /\ cpu.bus = last.pre.bus
    /\ (last.op = "load_bin" /\ last.file = NoFile) =>
          /\ last.returned
          /\ last.result = <<"Err", "io">>
          /\ cpu.bus = last.pre.bus
    /\ (LoadedFile /\ Len(last.file[1]) + last.org <= 65536) =>
          /\ last.returned
          /\ last.result = <<"Ok">>
          /\ \A i \in 1..Len(last.file[1]) :
                read_byte(cpu.bus, last.org + i - 1) = last.file[1][i]
          /\ SameMemoryExcept(cpu.bus.address_space, last.pre.bus.address_space,
                              last.org .. (last.org + Len(last.file[1]) - 1))

\* C40: load_bin of an image that fits puts every byte of the image in memory,
\* also at addresses inside a ROM window that is already set, where write_byte
\* would have stored nothing.
C40_LoadBinBypassesRom ==
    (LoadedFile /\ last.returned) =>
        \A i \in 1..Len(last.file[1]) :
            LET address == last.org + i - 1
            IN  /\ read_byte(cpu.bus, address) = last.file[1][i]
                /\ in_rom_space(last.pre.bus, address) =>
                      write_byte(last.pre.bus, address, last.file[1][i]) = last.pre.bus

\* C40 witness: with the window 0x2000..0x2003 set, load_bin at 0x1FFF changes
\* the ROM bytes at 0x2000 and 0x2001 from 0xBB, 0xCC to 0x22, 0x33
C40_Witness ==
    /\ LoadedFile
    /\ last.returned
    /\ last.org = 8191
    /\ last.pre.bus.rom_space = BusRomSpace
    /\ read_byte(last.pre.bus, 8192) = 187
    /\ read_byte(last.pre.bus, 8193) = 204
    /\ read_byte(cpu.bus, 8192) = 34
    /\ read_byte(cpu.bus, 8193) = 51

\* C39: an execute call ends the same way whichever way the debug switch is
\* set: it returns in both cases or in neither, with the same cycle count and the
\* same registers, flags, PC, SP, bus, halt, INTE, pending request and callbacks;
\* only debug.string may differ.
C39_DebugSwitchInert ==
    last.op = "execute" =>
        LET flipped         == execute([last.pre EXCEPT !.debug.switch = ~@])
            flipped_returns == ~(overflow_checks /\ flipped.trap)
        IN  /\ last.returned = flipped_returns
            /\ (last.returned /\ flipped_returns) =>
                  /\ last.cycles = flipped.cycles
                  /\ [cpu EXCEPT !.debug = flipped.c.debug] = flipped.c

\* C35: an execute_slice call returns when execute would, with the same cycle
\* count, and leaves registers, flags, PC, SP, bus, halt, INTE and the pending
\* request as execute leaves them; its counter is first put back to 0 if it has
\* passed slice_max_cycles and then grows by the cycle count, so it never
\* exceeds slice_max_cycles + 18.
C35_SliceRefinesExecute ==
    /\ last.op = "execute_slice" =>
          LET plain == execute(last.pre)
          IN  /\ last.returned = ~(overflow_checks /\ plain.trap)
              /\ last.returned =>
                    /\ last.cycles = plain.cycles
                    /\ [cpu EXCEPT !.slice_current_cycles = last.pre.slice_current_cycles]
                          = plain.c
                    /\ cpu.slice_current_cycles =
                          (IF last.pre.slice_current_cycles > last.pre.slice_max_cycles
                           THEN 0 ELSE last.pre.slice_current_cycles) + last.cycles
    /\ last.op = "execute" =>
          cpu.slice_current_cycles = last.pre.slice_current_cycles
    /\ cpu.slice_current_cycles <= cpu.slice_max_cycles + 18

\* C35 witness: with a budget of 10 the third execute_slice call finds the
\* counter above the budget, puts it back to 0 and leaves its own cycle count
C35_Witness ==
    /\ last.op = "execute_slice"
    /\ last.returned
    /\ last.pre.slice_max_cycles = 10
    /\ last.pre.slice_current_cycles > 10
    /\ last.cycles > 0
    /\ cpu.slice_current_cycles = last.cycles

\* where the example's loop stands after `steps` calls: MVI A first, then a
\* DCR A / JNZ pair for each value of A from 15 down to 1, then RET
DemoProgress ==
    /\ ~panicked
    /\ steps <= 32
    /\ cpu.pc \in {256, 258, 259, 262, 0}
    /\ cpu.pc = 256 => steps = 0
    /\ cpu.pc = 258 => cpu.registers.a \in 1..15 /\ steps = 1 + 2 * (15 - cpu.registers.a)
    /\ cpu.pc = 259 => cpu.registers.a \in 0..14 /\ steps = 2 * (15 - cpu.registers.a)
    /\ cpu.pc = 262 => cpu.registers.a = 0 /\ steps = 31
    /\ cpu.pc = 0   => steps = 32

DemoDone ==
    /\ cpu.pc = 0
    /\ steps = 32
    /\ cpu.registers.a = 0
    /\ cpu.flags.z

\* C33: from a new CPU with pc = 0x0100 and the example program in memory, the
\* host loop reaches pc = 0x0000 after exactly 32 execute calls (MVI A, fifteen
\* DCR A / JNZ pairs, RET), with A = 0 and Z set, and stays there
C33_DemoTerminates == []DemoProgress /\ <>[]DemoDone

C33_Witness == DemoDone /\ last.op = "execute" /\ last.opcode = 201 /\ last.prev.opcode = 194

\* the CPU as it would stand had the request been acknowledged and the opcode
\* been the byte in memory at pc
FetchedInstead(c, opcode) ==
    [c EXCEPT !.inte = FALSE, !.int = <<FALSE, 0>>,
              !.bus.address_space = store(@, c.pc, opcode)]

\* the CPU but for the memory byte at address
ButByteAt(c, address) == [c EXCEPT !.bus.address_space = store(@, address, 0)]

\* C34: with INTE set and a pending opcode that is not an RST, execute clears
\* INTE and the pending slot before decoding, runs the opcode as if it had been
\* fetched at pc0, operand bytes read at pc0+1 and pc0+2, and moves PC by the
\* same rule (pc0 + length outside the transfers); only EI leaves INTE set.
C34_InjectedAsFetched ==
    (Executed /\ last.injected /\ last.opcode \notin Restarts) =>
        LET pc0     == last.pre.pc
            op      == last.opcode
            fetched == execute(FetchedInstead(last.pre, op))
        IN  /\ cpu.int = <<FALSE, 0>>
            /\ cpu.inte = (op = 251)
            /\ ~fetched.trap
            /\ ButByteAt(cpu, pc0) = ButByteAt(fetched.c, pc0)
            /\ last.cycles = fetched.cycles
            /\ last.call = fetched.call
            /\ op \notin ControlTransfer => cpu.pc = pc0 + Length(op)
            /\ op = 62 => cpu.registers.a = read_byte(last.pre.bus, pc0 + 1)
            /\ op = 195 => cpu.pc = read_byte(last.pre.bus, pc0 + 1)
                                       + 256 * read_byte(last.pre.bus, pc0 + 2)

\* C34 witness: an injected MVI A took its operand from the byte after the INR A
\* in memory and moved PC by two
C34_Witness ==
    /\ Executed
    /\ last.injected
    /\ last.opcode = 62
    /\ read_byte(last.pre.bus, last.pre.pc) = 60
    /\ cpu.registers.a = 254
    /\ cpu.pc = last.pre.pc + 2
    /\ last.pre.inte /\ ~cpu.inte
    /\ cpu.int = <<FALSE, 0>>

\* the step just taken was an execute call that returned having taken its opcode
\* from the pending slot
Acknowledged == Executed /\ last.injected

\* what one execute call may do to the pending slot and to INTE: the slot is
\* emptied by the acknowledging call and left alone by every other; a call that
\* leaves INTE set found it set and acknowledged nothing, or executed EI
AcknowledgeStep ==
    (last'.op = "execute" /\ last'.returned) =>
        /\ last'.injected => cpu.inte /\ cpu.int[1] /\ cpu'.int = <<FALSE, 0>>
        /\ ~last'.injected => cpu'.int = cpu.int
        /\ cpu'.inte => (cpu.inte /\ ~last'.injected) \/ last'.opcode = 251

\* C36: a request armed once is acknowledged at most once: execute alters the
\* pending slot in the acknowledging call only, which leaves it (false, 0); no
\* later call acknowledges again unless the host arms again; and INTE, cleared
\* by the acknowledge, stays clear until an EI is executed.
C36_OneAcknowledgePerArming ==
    /\ [][AcknowledgeStep]_vars
    /\ \A k \in 0..(MaxArms + 1), n \in 0..(MaxSteps + 1) :
          []((Acknowledged /\ arms = k /\ steps = n) =>
                [](arms = k => /\ cpu.int = <<FALSE, 0>>
                               /\ steps > n => ~Acknowledged))

\* C36 witness: a request was acknowledged and a later call, with INTE clear and
\* the slot empty, fetched from memory
C36_Witness ==
    /\ Executed
    /\ ~last.injected
    /\ last.prev.op = "execute"
    /\ last.prev.injected
    /\ last.prev.returned
    /\ last.pre.int = <<FALSE, 0>>
    /\ cpu.int = <<FALSE, 0>>

Pushes == {197, 213, 229, 245}

\* the address an instruction stores to, the first of the two for a word; -1 when
\* it stores nothing
StoreAddress(c, opcode) ==
    CASE opcode \in Pushes \cup {205} \cup Restarts -> (c.sp + 65534) % 65536
      [] opcode \in ConditionalCalls /\ ConditionHolds(c.flags, opcode) ->
            (c.sp + 65534) % 65536
      [] opcode = 227 -> c.sp
      [] opcode \in {52, 53, 54} \cup ((112..119) \ {118}) ->
            256 * c.registers.h + c.registers.l
      [] opcode = 2 -> 256 * c.registers.b + c.registers.c
      [] opcode = 18 -> 256 * c.registers.d + c.registers.e
      [] opcode \in {50, 34} -> Operand16(c)
      [] OTHER -> -1

\* the last call fetched an instruction whose store was aimed at the ROM window
StoredIntoRom ==
    /\ Fetched
    /\ StoreAddress(last.pre, last.opcode) >= 0
    /\ in_rom_space(last.pre.bus, StoreAddress(last.pre, last.opcode))

\* C37: an instruction whose store is aimed at the ROM window leaves the bus as
\* it was and otherwise does what it does on RAM: registers, flags, SP, PC and
\* the cycle count are those of the same call without the window.  PUSH, CALL
\* and RST take 2 from SP, CALL and RST set PC to their target, XTHL loads HL
\* with the word at SP, INR M and DCR M set S, Z, A, P from the result not stored.
C37_RomDropsOnlyTheWrite ==
    StoredIntoRom =>
        LET pre == last.pre
            op  == last.opcode
            ram == execute([pre EXCEPT !.bus.rom_space = NoRom])
            n   == read_byte(pre.bus, 256 * pre.registers.h + pre.registers.l)
            r   == IF op = 52 THEN (n + 1) % 256 ELSE (n + 255) % 256
        IN  /\ cpu.bus = pre.bus
            /\ [cpu EXCEPT !.bus = ram.c.bus] = ram.c
            /\ last.cycles = ram.cycles
            /\ op \in Pushes =>
                  cpu.sp = (pre.sp + 65534) % 65536 /\ cpu.pc = pre.pc + 1
            /\ op \in {205} \cup ConditionalCalls =>
                  cpu.sp = (pre.sp + 65534) % 65536 /\ cpu.pc = Operand16(pre)
            /\ op \in Restarts =>
                  cpu.sp = (pre.sp + 65534) % 65536 /\ cpu.pc = op - 199
            /\ op = 227 =>
                  /\ 256 * cpu.registers.h + cpu.registers.l = WordAt(pre.bus, pre.sp)
                  /\ cpu.sp = pre.sp
            /\ op \in {52, 53} =>
                  /\ cpu.flags.z = (r = 0)
                  /\ cpu.flags.s = (r >= 128)
                  /\ cpu.flags.p = EvenParity(r)
                  /\ cpu.flags.a = IF op = 52 THEN (n % 16) + 1 > 15 ELSE r % 16 # 15
                  /\ cpu.flags.c = pre.flags.c

\* C37 witness: a CALL with its stack word in the window moved SP and PC and
\* left memory alone, where the same call without the window writes the word
C37_Witness ==
    /\ StoredIntoRom
    /\ last.opcode = 205
    /\ cpu.sp = last.pre.sp - 2
    /\ cpu.pc = 65278
    /\ cpu.bus.address_space = last.pre.bus.address_space
    /\ execute([last.pre EXCEPT !.bus.rom_space = NoRom]).c.bus.address_space
           # last.pre.bus.address_space

\* what the host can observe of the mailbox after the last step: the device and
\* value of the OUT just executed, and of no other
OnlyLastOut(d1) ==
    LET d2 == Operand8(last.pre)
        v2 == last.pre.registers.a
    IN  /\ get_io_out(cpu.bus, d2) = <<v2>>
        /\ get_io_out(cpu.bus, d1) = IF d1 = d2 THEN <<v2>> ELSE <<>>
        /\ \A e \in Byte \ {d2} : get_io_out(cpu.bus, e) = <<>>

\* C38: with no out-callback, an OUT executed while the mailbox still holds an
\* earlier OUT (none cleared it) replaces it: get_io_out gives the second value
\* for the second device and None for the first device when the two differ.
C38_MailboxHoldsLastOut ==
    /\ (OutExecuted /\ last.pre.out_callback = <<"none">>
                    /\ last.pre.bus.pending_io.kind = "OUT") =>
          OnlyLastOut(last.pre.bus.pending_io.device)
    /\ (OutExecuted /\ last.pre.out_callback = <<"none">>
                    /\ last.prev.op = "execute" /\ last.prev.returned
                    /\ ~last.prev.injected /\ last.prev.opcode = 211
                    /\ last.prev.pre.out_callback = <<"none">>) =>
          OnlyLastOut(Operand8(last.prev.pre))

\* C38 witness: OUT 1 with A = 0x9B, INR A, OUT 2: device 1 reads None and
\* device 2 reads 0x9C
C38_Witness ==
    /\ OutExecuted
    /\ last.pre.out_callback = <<"none">>
    /\ last.prev.op = "execute"
    /\ last.prev.opcode = 60
    /\ last.pre.bus.pending_io = [kind |-> "OUT", device |-> 1, value |-> 155]
    /\ get_io_out(last.pre.bus, 1) = <<155>>
    /\ get_io_out(cpu.bus, 1) = <<>>
    /\ get_io_out(cpu.bus, 2) = <<156>>

\* C38 witness, one device: OUT 1, INR A, OUT 1 and device 1 reads the second value
C38_WitnessSameDevice ==
    /\ OutExecuted
    /\ last.pre.bus.pending_io = [kind |-> "OUT", device |-> 1, value |-> 155]
    /\ get_io_out(cpu.bus, 1) = <<156>>

====
